---- MODULE Spec2Model ----
(***************************************************************************)
(* Model of the ML engine of brand-sentiment-analysis:                     *)
(*   ml-engine/app/clustering.py   cluster_posts, match_cluster_to_taxonomy*)
(*   ml-engine/app/sentiment.py    classify_sentiment,                     *)
(*                                 aggregate_cluster_sentiment,            *)
(*                                 analyze_sentiment,                      *)
(*                                 analyze_posts_sentiment                 *)
(*   ml-engine/app/sentiment_gemini.py  _init_gemini,                      *)
(*                                 _call_gemini_with_retry,                *)
(*                                 analyze_sentiment_gemini,               *)
(*                                 analyze_posts_sentiment_gemini,         *)
(*                                 _analyze_batch                          *)
(*                                                                         *)
(* Text is modelled by TLA+ strings.  A taxonomy score is the float        *)
(* sum of (N - i) / N over the matching positions i of one keyword list;   *)
(* all scores of one call share the denominator N = len(keywords), so the  *)
(* model keeps the numerator, sum of (N - i), and compares                 *)
(*   score > best_score   as   numerator > best numerator                  *)
(*   best_score > 0.5     as   2 * numerator > N.                          *)
(* Sentiment scores are kept in thousandths (0.3 is 300).                  *)
(***************************************************************************)
EXTENDS Integers, Sequences, FiniteSets, TLC

VARIABLES
    keywords,     \* match_cluster_to_taxonomy: the keywords argument
    exclude,      \* match_cluster_to_taxonomy: the exclude argument
    matched,      \* match_cluster_to_taxonomy: the returned (key, label), or NoMatch
    posts,        \* cluster_posts: the posts argument
    n_clusters,   \* cluster_posts: the n_clusters argument
    fitted,       \* what the vectorizer and K-Means computed for (posts, n_clusters, seed)
    returned,     \* the (clusters, posts) tuples returned by the calls so far
    uuid_next,    \* the identifiers uuid.uuid4() has handed out
    score,        \* classify_sentiment: the score argument, in thousandths
    category,     \* classify_sentiment: the returned category, or None
    members,      \* aggregate_cluster_sentiment: the posts argument
    average,      \* aggregate_cluster_sentiment: the returned mean, or NotReturned
    gemini_imported,  \* sentiment.py: GEMINI_IMPORTED
    api_key,          \* os.environ.get('GEMINI_API_KEY'), "" when it is not set
    gemini_available, \* sentiment_gemini.py: _gemini_available, None at import
    gemini_model,     \* _gemini_model: NoClient, or the number of the client built
    clients_built,    \* how many genai.Client objects have been constructed
    init_pc,          \* _init_gemini: where each calling thread stands
    init_local,       \* _init_gemini: what each thread has read and returned
    pc,               \* the scorer: the function that runs, or waits for the provider
    text,             \* analyze_sentiment: the text argument
    sentiment_posts,  \* analyze_posts_sentiment: the posts argument
    batch_start,      \* analyze_posts_sentiment_gemini: i of the batch loop
    single_idx,       \* analyze_posts_sentiment_gemini: the post of the fallback loop
    results,          \* analyze_posts_sentiment_gemini: results
    scored_by,        \* the strategy that produced each sentiment of results / output
    lexicon_calls,    \* the texts handed to the VADER analyzer, in order
    output,           \* what the scorer's entry point returned, or NotReturned
    raised,           \* the exception that left the entry point, or None
    prompt,           \* _call_gemini_with_retry: the prompt argument
    max_retries,      \* _call_gemini_with_retry: max_retries
    attempt,          \* _call_gemini_with_retry: attempt of the for loop
    provider_calls,   \* generate_content invocations of the running call
    sleeps,           \* the time.sleep delays of the running call, in order
    last_error,       \* _call_gemini_with_retry: last_error
    response,         \* what _call_gemini_with_retry returned, or NotReturned
    raw_text,         \* clean_text: the text argument of the first call
    first_pass,       \* clean_text(raw_text), or None
    second_pass,      \* clean_text(first_pass), or None
    request_posts,    \* /api/analyze: data['posts'] of the request
    k_passed,         \* /api/analyze: the n_clusters handed to cluster_posts, 0 before
    api_response,     \* /api/analyze: the response, or NotReturned
    sia,              \* sentiment.py: _sia, NoAnalyzer or the number of an analyzer
    sia_lexicon,      \* for each analyzer built, whether CUSTOM_LEXICON is in its lexicon
    sia_pc,           \* _analyze_sentiment_vader: where each calling thread stands
    sia_local         \* the analyzer each thread obtained and the lexicon it scored with

\* the state of the aggregator
aggregateVars == <<members, average>>
\* the process environment of the scorer
envVars == <<gemini_imported, api_key>>
\* the module globals of sentiment_gemini.py
geminiVars == <<gemini_available, gemini_model, clients_built>>
\* the threads inside _init_gemini
initVars == <<init_pc, init_local>>
\* the frames of the scorer's entry points
flowVars == <<pc, text, sentiment_posts, batch_start, single_idx, results, scored_by,
              lexicon_calls, output, raised>>
\* the frame of _call_gemini_with_retry
callVars == <<prompt, max_retries, attempt, provider_calls, sleeps, last_error, response>>

\* the frames of clean_text
cleanVars == <<raw_text, first_pass, second_pass>>
\* the request and the response of /api/analyze
analyzeVars == <<request_posts, k_passed, api_response>>
\* the VADER analyzer singleton and the threads that ask for it
analyzerVars == <<sia, sia_lexicon, sia_pc, sia_local>>
\* the state of the preprocessing, of the endpoint and of the analyzer singleton
pipelineVars == <<cleanVars, analyzeVars, analyzerVars>>

\* the state of the sentiment scorer and of the aggregator
scorerVars == <<aggregateVars, envVars, geminiVars, initVars, flowVars, callVars>>

vars == <<keywords, exclude, matched, posts, n_clusters, fitted, returned,
          uuid_next, score, category, scorerVars, pipelineVars>>

None == "None"
NoMatch == <<>>       \* best_match = None, and no (key, label) returned yet
NotReturned == <<>>   \* the call has not returned yet
NoClient == 0         \* _gemini_model = None
NoPrompt == <<>>      \* no request to the provider is being made
NoAnalyzer == 0       \* _sia = None
NoError == <<>>       \* validate_posts: error_response = None

(***************************************************************************)
(* Bounds of the model.                                                    *)
(***************************************************************************)
MaxKeywords == 3      \* longest keyword list handed to the matcher directly
MaxPosts == 3         \* most posts in one cluster_posts call
MaxClusters == 2      \* largest n_clusters in one cluster_posts call
MaxMilli == 400       \* classify_sentiment is applied to -0.400 .. 0.400
MaxMembers == 3       \* most posts handed to aggregate_cluster_sentiment
MaxRetries == 2       \* largest max_retries handed to _call_gemini_with_retry
MaxDocs == 6          \* most posts in one analyze_posts_sentiment call
MaxThreads == 2       \* threads that call _init_gemini
MaxPieces == 4        \* most pieces of TextPieces in one text handed to clean_text
MaxRequest == 4       \* most posts of a request whose contents and ids vary

(***************************************************************************)
(* Strings: str.lower(), the `in` operator, ' '.join(), str.strip().       *)
(***************************************************************************)
UpperLetters == "ABCDEFGHIJKLMNOPQRSTUVWXYZ"
LowerLetters == "abcdefghijklmnopqrstuvwxyz"

LowerChar(c) ==
    IF \E i \in 1..Len(UpperLetters) : SubSeq(UpperLetters, i, i) = c
    THEN LET i == CHOOSE j \in 1..Len(UpperLetters) : SubSeq(UpperLetters, j, j) = c
         IN  SubSeq(LowerLetters, i, i)
    ELSE c

RECURSIVE Lower(_)
Lower(s) ==
    IF s = "" THEN ""
    ELSE LowerChar(SubSeq(s, 1, 1)) \o Lower(SubSeq(s, 2, Len(s)))

UpperChar(c) ==
    IF \E i \in 1..Len(LowerLetters) : SubSeq(LowerLetters, i, i) = c
    THEN LET i == CHOOSE j \in 1..Len(LowerLetters) : SubSeq(LowerLetters, j, j) = c
         IN  SubSeq(UpperLetters, i, i)
    ELSE c

\* str.capitalize(): first character upper-cased, the rest lower-cased
Capitalize(s) ==
    IF s = "" THEN ""
    ELSE UpperChar(SubSeq(s, 1, 1)) \o Lower(SubSeq(s, 2, Len(s)))

\* t in s  (Python substring test; the empty string is in every string)
Contains(s, t) ==
    \E i \in 0..(Len(s) - Len(t)) : SubSeq(s, i + 1, i + Len(t)) = t

StartsWith(s, t) == Len(t) <= Len(s) /\ SubSeq(s, 1, Len(t)) = t

RECURSIVE Join(_)
Join(tokens) ==
    IF Len(tokens) = 0 THEN ""
    ELSE IF Len(tokens) = 1 THEN tokens[1]
    ELSE tokens[1] \o " " \o Join(Tail(tokens))

\* doc.strip() is truthy: some character of doc is not a blank
StripNonEmpty(doc) == \E i \in 1..Len(doc) : SubSeq(doc, i, i) # " "

(***************************************************************************)
(* CLUSTER_TAXONOMY, in the insertion order of the dict.                   *)
(***************************************************************************)
CLUSTER_TAXONOMY == <<
    [key |-> "ev_adoption", label |-> "EV Adoption",
     description |-> "Electric vehicle adoption, charging infrastructure, and range concerns",
     keywords |-> {"579ev", "ev", "electric", "battery", "charging", "range",
                   "zero", "emission", "350kw", "charger", "kwh", "bev"}],
    [key |-> "driver_comfort", label |-> "Driver Comfort",
     description |-> "Cab interior, sleeper features, and driver ergonomics",
     keywords |-> {"sleeper", "interior", "ergonomic", "seat", "comfort", "80",
                   "inch", "platinum", "cab", "mattress", "space", "loft", "ultraloft"}],
    [key |-> "uptime_reliability", label |-> "Uptime & Reliability",
     description |-> "Mechanical reliability, service quality, and dealer experience",
     keywords |-> {"engine", "service", "dealer", "breakdown", "repair", "uptime",
                   "reliable", "reliability", "miles", "maintenance", "derate", "shop"}],
    [key |-> "model_demand", label |-> "Model Demand",
     description |-> "Model availability, wait times, and ordering experience",
     keywords |-> {"589", "579", "567", "389", "wait", "order", "backlog", "delivery",
                   "availability", "new", "model", "spec", "ordered", "months"}],
    [key |-> "technology_features", label |-> "Technology & Features",
     description |-> "Truck technology, telematics, and modern features",
     keywords |-> {"smartlinq", "infotainment", "navigation", "led", "headlight", "dashboard",
                   "apu", "tech", "technology", "system", "display", "diagnostics", "alert"}],
    [key |-> "brand_comparison", label |-> "Brand Comparison",
     description |-> "Comparisons with competing truck brands and switching decisions",
     keywords |-> {"kenworth", "freightliner", "volvo", "mack", "international", "switch",
                   "compare", "comparison", "versus", "better", "competition", "brand"}],
    [key |-> "pricing_value", label |-> "Pricing & Value",
     description |-> "Truck pricing, incentives, and value for money discussions",
     keywords |-> {"price", "cost", "expensive", "cheap", "value", "worth", "money",
                   "rebate", "hvip", "incentive", "roi", "investment", "budget", "afford"}],
    [key |-> "build_quality", label |-> "Build Quality",
     description |-> "Manufacturing quality, materials, and craftsmanship",
     keywords |-> {"quality", "build", "premium", "materials", "craftsmanship", "weld",
                   "finish", "paint", "chrome", "durable", "solid", "construction"}]
>>

TaxonomyKeys == {CLUSTER_TAXONOMY[e].key : e \in 1..Len(CLUSTER_TAXONOMY)}

\* CLUSTER_TAXONOMY.get(taxonomy_id, {}).get('description', '')
taxonomy_description(taxonomy_id) ==
    IF taxonomy_id \in TaxonomyKeys
    THEN LET e == CHOOSE x \in 1..Len(CLUSTER_TAXONOMY) : CLUSTER_TAXONOMY[x].key = taxonomy_id
         IN  CLUSTER_TAXONOMY[e].description
    ELSE ""

(***************************************************************************)
(* The texts of the model: keyword lists handed to the matcher directly,   *)
(* and the tokens of the posts handed to cluster_posts.                    *)
(***************************************************************************)
KeywordPool == {"electric", "Battery", "sleeper", "er", "random"}
ExcludePool == {"ev_adoption", "driver_comfort", "general", "general_1"}
Words == {"electric", "sleeper", "foo"}
TokenLists == {<<>>} \cup {<<w>> : w \in Words}
Entropy == {1, 2}     \* seeds the operating system can hand an unseeded K-Means

\* one- and two-word terms over Words: what the vectorizer can name a feature
FeatureUniverse == Words \cup {a \o " " \o b : a \in Words, b \in Words}

KeywordUniverse == KeywordPool \cup FeatureUniverse

BoundedSeq(S, n) == UNION {[1..m -> S] : m \in 0..n}

(***************************************************************************)
(* match_cluster_to_taxonomy(keywords, exclude)                            *)
(***************************************************************************)
\* set(k.lower() for k in taxonomy['keywords'])
taxonomy_keywords(e) == {Lower(k) : k \in CLUSTER_TAXONOMY[e].keywords}

\* the inner for loop with its break: does kw hit some keyword of the entry
keyword_matches(kw, tax_kws) ==
    \E tax_kw \in tax_kws : Contains(kw, tax_kw) \/ Contains(tax_kw, kw)

\* keywords_lower against every entry, evaluated once for each text of the model
MatchTable ==
    [k \in KeywordUniverse |->
        {e \in 1..Len(CLUSTER_TAXONOMY) : keyword_matches(Lower(k), taxonomy_keywords(e))}]

\* score += (len(keywords) - i) / len(keywords), as the numerator over len(keywords);
\* i is the 1-based position here, i - 1 the 0-based position of the code
position_weight(kws, i) == Len(kws) - (i - 1)

\* the loop over taxonomy_keywords without its break: one contribution for
\* every keyword of the entry the candidate matches
RECURSIVE score_without_break(_, _, _)
score_without_break(kws, e, i) ==
    IF i > Len(kws) THEN 0
    ELSE position_weight(kws, i)
           * Cardinality({tax_kw \in taxonomy_keywords(e) :
                            keyword_matches(Lower(kws[i]), {tax_kw})})
         + score_without_break(kws, e, i + 1)

RECURSIVE score_from(_, _, _)
score_from(kws, e, i) ==
    IF i > Len(kws) THEN 0
    ELSE (IF e \in MatchTable[kws[i]] THEN position_weight(kws, i) ELSE 0)
         + score_from(kws, e, i + 1)

entry_score(kws, e) == score_from(kws, e, 1)

\* the skip of used keys left out
never_excluded(key, excl) == FALSE

\* if key in exclude: continue
is_excluded(key, excl) == key \in excl

\* if score > 0: the comparison with the best score so far left out
improves_on_zero(s, best_score) == s > 0

\* if score > best_score
improves(s, best_score) == s > best_score

\* best_score >= 0.5 in place of best_score > 0.5
at_threshold(best_score, N) == 2 * best_score >= N

\* best_score > 0.5, on numerators over N = len(keywords)
above_threshold(best_score, N) == 2 * best_score > N

\* the for loop over CLUSTER_TAXONOMY.items(): (best_match, best_score) after entry e..
RECURSIVE best_from(_, _, _, _, _)
best_from(e, kws, excl, best_match, best_score) ==
    IF e > Len(CLUSTER_TAXONOMY) THEN <<best_match, best_score>>
    ELSE IF is_excluded(CLUSTER_TAXONOMY[e].key, excl)
         THEN best_from(e + 1, kws, excl, best_match, best_score)
         ELSE LET s == entry_score(kws, e)
              IN  IF improves(s, best_score)
                  THEN best_from(e + 1, kws, excl,
                                 <<CLUSTER_TAXONOMY[e].key, CLUSTER_TAXONOMY[e].label>>, s)
                  ELSE best_from(e + 1, kws, excl, best_match, best_score)

\* while general_key in exclude: general_key = f'general_{counter}'; counter += 1
RECURSIVE general_loop(_, _, _)
general_loop(general_key, counter, excl) ==
    IF general_key \in excl
    THEN general_loop("general_" \o ToString(counter), counter + 1, excl)
    ELSE <<general_key, counter>>

general_fallback(excl) ==
    LET g == general_loop("general", 1, excl)
    IN  <<g[1], IF g[1] = "general" THEN "General Discussion"
                ELSE "General Discussion " \o ToString(g[2])>>

\* exclude = None is replaced by set() on entry, so the model passes a set
match_cluster_to_taxonomy(kws, excl) ==
    LET best == best_from(1, kws, excl, NoMatch, 0)
    IN  IF best[1] # NoMatch /\ above_threshold(best[2], Len(kws))
        THEN best[1]
        ELSE general_fallback(excl)

(***************************************************************************)
(* cluster_posts(posts, n_clusters).  A post is a dict, modelled by a      *)
(* function from its keys; positions are 1-based, cluster indices 0-based. *)
(***************************************************************************)
max_features == 500        \* TfidfVectorizer(max_features=500)
min_df == 1                \* TfidfVectorizer(min_df=1)
max_df_percent == 95       \* TfidfVectorizer(max_df=0.95), in percent
random_state == 42         \* KMeans(random_state=42)
TOP_KEYWORDS == 15         \* centroid.argsort()[-15:][::-1]
REPORTED_KEYWORDS == 10    \* keywords[:10]

\* {**post, key: value}
with_field(post, key, value) == (key :> value) @@ post

\* ' '.join(p.get('tokens', []))
document(post) == IF "tokens" \in DOMAIN post THEN Join(post.tokens) ELSE ""

\* valid_indices = [i for i, doc in enumerate(documents) if doc.strip()]
valid_indices(ps) ==
    SelectSeq([i \in 1..Len(ps) |-> i], LAMBDA i : StripNonEmpty(document(ps[i])))

\* the analyzer of the vectorizer: the words of a document string
RECURSIVE SplitWords(_, _)
SplitWords(doc, word) ==
    IF doc = "" THEN (IF word = "" THEN <<>> ELSE <<word>>)
    ELSE IF SubSeq(doc, 1, 1) = " "
         THEN (IF word = "" THEN <<>> ELSE <<word>>) \o SplitWords(SubSeq(doc, 2, Len(doc)), "")
         ELSE SplitWords(SubSeq(doc, 2, Len(doc)), word \o SubSeq(doc, 1, 1))

\* ngram_range=(1, 2): the words of a document and its pairs of adjacent words
document_terms(doc) ==
    LET w == SplitWords(doc, "")
    IN  {w[i] : i \in 1..Len(w)} \cup {w[i] \o " " \o w[i + 1] : i \in 1..(Len(w) - 1)}

\* fit_transform: the feature names, or {} when it raises ValueError.  A term is
\* kept when min_df <= df <= max_df * n_docs; no term left, or max_df * n_docs <
\* min_df, raises.  More than max_features terms are cut to max_features of them.
vocabulary_choices(valid_documents) ==
    LET n_docs == Len(valid_documents)
        doc_terms == [d \in 1..n_docs |-> document_terms(valid_documents[d])]
        terms == UNION {doc_terms[d] : d \in 1..n_docs}
        df == [t \in terms |-> Cardinality({d \in 1..n_docs : t \in doc_terms[d]})]
        kept == {t \in terms : df[t] >= min_df /\ 100 * df[t] <= max_df_percent * n_docs}
    IN  IF max_df_percent * n_docs < 100 * min_df \/ kept = {} THEN {{}}
        ELSE IF Cardinality(kept) <= max_features THEN {kept}
        ELSE {f \in SUBSET kept : Cardinality(f) = max_features}

\* the sequences of n distinct elements of S
Rankings(S, n) == {r \in [1..n -> S] : \A i, j \in 1..n : r[i] = r[j] => i = j}

Min(a, b) == IF a < b THEN a ELSE b

\* what KMeans(n_clusters).fit_predict and cluster_centers_ can be for a matrix:
\* a label for every document (equal rows get equal labels) and, for every
\* cluster that has a member, the TOP_KEYWORDS heaviest features of its centroid
\* in descending order
kmeans_fits(valid_documents, feature_names, k) ==
    LET docs == {valid_documents[d] : d \in 1..Len(valid_documents)}
        top == Min(TOP_KEYWORDS, Cardinality(feature_names))
        tops == Rankings(feature_names, top)
    IN  UNION {
          {[labels |-> l,
            top_features |-> [c \in 0..(k - 1) |->
                                IF c \in DOMAIN t THEN t[c] ELSE <<>>]] :
             t \in [{l[d] : d \in docs} -> tops]}
          : l \in [docs -> 0..(k - 1)]}

\* the members of cluster cluster_idx: label == cluster_idx, over valid_indices
in_cluster(labels, i, cluster_idx) == i \in DOMAIN labels /\ labels[i] = cluster_idx

\* one identifier generated before the loop and reused for every cluster
uuid4_reused(n) == "uuid-0"

\* str(uuid.uuid4()): the n-th identifier handed out
uuid4(n) == "uuid-" \o ToString(n)

\* the add left out
used_unchanged(used, taxonomy_id) == used

\* used_taxonomy_ids.add(taxonomy_id)
used_after(used, taxonomy_id) == used \cup {taxonomy_id}

\* the for loop over range(n_clusters), from cluster_idx on; labels[i] is
\* cluster_labels at the position of post i in valid_indices
RECURSIVE build_clusters(_, _, _, _, _, _, _, _)
build_clusters(cluster_idx, k, valid, labels, top_features, acc, updated_posts, uuid) ==
    IF cluster_idx >= k
    THEN [clusters |-> acc.clusters, posts |-> updated_posts, uuid |-> uuid]
    ELSE
      LET cluster_post_indices ==
              SelectSeq(valid, LAMBDA i : in_cluster(labels, i, cluster_idx))
          cluster_posts_list ==
              [j \in 1..Len(cluster_post_indices) |-> updated_posts[cluster_post_indices[j]]]
      IN  IF Len(cluster_posts_list) = 0
          THEN build_clusters(cluster_idx + 1, k, valid, labels, top_features, acc,
                              updated_posts, uuid)
          ELSE
            LET kws == top_features[cluster_idx]
                m == match_cluster_to_taxonomy(kws, acc.used)
                cluster ==
                  [id |-> uuid4(uuid + 1),
                   taxonomyId |-> m[1],
                   label |-> m[2],
                   description |-> taxonomy_description(m[1]),
                   keywords |-> SubSeq(kws, 1, Min(REPORTED_KEYWORDS, Len(kws))),
                   postCount |-> Len(cluster_posts_list),
                   postIds |-> [j \in 1..Len(cluster_posts_list) |-> cluster_posts_list[j].id]]
                posts_with_id ==
                  [i \in 1..Len(updated_posts) |->
                     IF \E j \in 1..Len(cluster_post_indices) : cluster_post_indices[j] = i
                     THEN with_field(updated_posts[i], "clusterId", cluster.id)
                     ELSE updated_posts[i]]
            IN  build_clusters(cluster_idx + 1, k, valid, labels, top_features,
                               [clusters |-> Append(acc.clusters, cluster),
                                used |-> used_after(acc.used, m[1])],
                               posts_with_id, uuid + 1)

insufficient_posts(k) ==
    [reason |-> "insufficient_posts",
     message |-> "Need at least " \o ToString(k) \o " posts for clustering"]

insufficient_documents ==
    [reason |-> "insufficient_vocabulary",
     message |-> "Not enough non-empty tokenized documents for clustering"]

insufficient_terms ==
    [reason |-> "insufficient_vocabulary",
     message |-> "Not enough unique terms for TF-IDF vectorization"]

\* return [{'reason': ..., 'message': ...}], []
guard_return_no_posts(pseudo_cluster, ps) == [clusters |-> <<pseudo_cluster>>, posts |-> <<>>]

\* return [{'reason': ..., 'message': ...}], posts
guard_return(pseudo_cluster, ps) == [clusters |-> <<pseudo_cluster>>, posts |-> ps]

\* if not posts or len(posts) <= n_clusters
too_few_or_as_many_posts(ps, k) == Len(ps) = 0 \/ Len(ps) <= k

\* if not posts or len(posts) < n_clusters
too_few_posts(ps, k) == Len(ps) = 0 \/ Len(ps) < k

\* if len(valid_indices) < n_clusters
too_few_documents(valid, k) == Len(valid) < k

valid_documents_of(ps) ==
    LET valid == valid_indices(ps) IN [j \in 1..Len(valid) |-> document(ps[valid[j]])]

\* the part of cluster_posts after the vectorizer and K-Means have run
cluster_posts_fitted(ps, k, fit, uuid) ==
    LET valid == valid_indices(ps)
        \* cluster_labels, by the position of the post
        labels == [i \in {valid[j] : j \in 1..Len(valid)} |-> fit.labels[document(ps[i])]]
        \* updated_posts[valid_idx] = {**updated_posts[valid_idx], 'clusterIdx': label}
        updated_posts ==
          [i \in 1..Len(ps) |->
             IF i \in DOMAIN labels
             THEN with_field(ps[i], "clusterIdx", labels[i])
             ELSE ps[i]]
    IN  build_clusters(0, k, valid, labels, fit.top_features,
                       [clusters |-> <<>>, used |-> {}], updated_posts, uuid)

(***************************************************************************)
(* Initial values of the variables an operation does not use.              *)
(***************************************************************************)
MatchIdle == keywords = <<>> /\ exclude = {} /\ matched = NoMatch
ClusterIdle ==
    /\ posts = <<>> /\ n_clusters = 0 /\ fitted = <<>>
    /\ returned = <<>> /\ uuid_next = 0
ClassifyIdle == score = 0 /\ category = None
AggregateIdle == members = <<>> /\ average = NotReturned
GeminiIdle ==
    /\ gemini_imported = TRUE /\ api_key = ""
    /\ gemini_available = None /\ gemini_model = NoClient /\ clients_built = 0
InitThreadsIdle == init_pc = <<>> /\ init_local = <<>>
FlowIdle ==
    /\ pc = "idle" /\ text = "" /\ sentiment_posts = <<>> /\ batch_start = 0 /\ single_idx = 0
    /\ results = <<>> /\ scored_by = <<>> /\ lexicon_calls = <<>>
    /\ output = NotReturned /\ raised = None
CallIdle ==
    /\ prompt = NoPrompt /\ max_retries = 0 /\ attempt = 0 /\ provider_calls = 0
    /\ sleeps = <<>> /\ last_error = None /\ response = NotReturned
ScorerIdle == AggregateIdle /\ GeminiIdle /\ InitThreadsIdle /\ FlowIdle /\ CallIdle
CleanIdle == raw_text = "" /\ first_pass = None /\ second_pass = None
AnalyzeIdle == request_posts = <<>> /\ k_passed = 0 /\ api_response = NotReturned
AnalyzerIdle ==
    /\ sia = NoAnalyzer /\ sia_lexicon = <<>> /\ sia_pc = <<>> /\ sia_local = <<>>
PipelineIdle == CleanIdle /\ AnalyzeIdle /\ AnalyzerIdle

(***************************************************************************)
(* SpecMatch: match_cluster_to_taxonomy applied to every keyword list of   *)
(* at most MaxKeywords texts and every exclude set over ExcludePool.       *)
(***************************************************************************)
InitMatch ==
    /\ keywords \in BoundedSeq(KeywordPool, MaxKeywords)
    /\ exclude \in SUBSET ExcludePool
    /\ matched = NoMatch
    /\ ClusterIdle /\ ClassifyIdle /\ ScorerIdle /\ PipelineIdle

MatchCall ==
    /\ matched = NoMatch
    /\ matched' = match_cluster_to_taxonomy(keywords, exclude)
    /\ UNCHANGED <<keywords, exclude, posts, n_clusters, fitted, returned,
                   uuid_next, score, category, scorerVars, pipelineVars>>

NextMatch == MatchCall

SpecMatch == InitMatch /\ [][NextMatch]_vars

(***************************************************************************)
(* Spec: cluster_posts called, and called again, on the same posts and     *)
(* n_clusters, for every list of at most MaxPosts posts whose token lists  *)
(* are in TokenLists and every n_clusters in 1..MaxClusters.               *)
(***************************************************************************)
PostLists ==
    UNION {{[i \in 1..n |-> [id |-> "p" \o ToString(i), tokens |-> t[i]]] :
              t \in [1..n -> TokenLists]} : n \in 0..MaxPosts}

Init ==
    /\ posts \in PostLists
    /\ n_clusters \in 1..MaxClusters
    /\ fitted = <<>>
    /\ returned = <<>>
    /\ uuid_next = 0
    /\ MatchIdle /\ ClassifyIdle /\ ScorerIdle /\ PipelineIdle

\* random_state=None: K-Means seeds itself from the entropy of the call
kmeans_unseeded == Entropy

\* the seeds K-Means can run with: random_state=42 leaves one
kmeans_seeds == {random_state}

\* K-Means is a function of (matrix, n_clusters, seed): the fit remembered for
\* the same seed is the fit of this call, any other seed can give any fit
fits_for(seed, valid_documents, feature_names, k) ==
    IF fitted # <<>> /\ fitted[1].seed = seed
    THEN {fitted[1].fit}
    ELSE kmeans_fits(valid_documents, feature_names, k)

\* one call of cluster_posts(posts, n_clusters)
cluster_posts_call ==
    /\ UNCHANGED <<posts, n_clusters, keywords, exclude, matched, score, category,
                   scorerVars, pipelineVars>>
    /\ IF too_few_posts(posts, n_clusters)
       THEN /\ returned' = Append(returned, guard_return(insufficient_posts(n_clusters), posts))
            /\ UNCHANGED <<fitted, uuid_next>>
       ELSE IF too_few_documents(valid_indices(posts), n_clusters)
       THEN /\ returned' = Append(returned, guard_return(insufficient_documents, posts))
            /\ UNCHANGED <<fitted, uuid_next>>
       ELSE \E feature_names \in vocabulary_choices(valid_documents_of(posts)) :
              IF feature_names = {}
              THEN /\ returned' = Append(returned, guard_return(insufficient_terms, posts))
                   /\ UNCHANGED <<fitted, uuid_next>>
              ELSE \E seed \in kmeans_seeds :
                   \E fit \in fits_for(seed, valid_documents_of(posts),
                                       feature_names, n_clusters) :
                     LET out == cluster_posts_fitted(posts, n_clusters, fit, uuid_next)
                     IN  /\ fitted' = <<[seed |-> seed, fit |-> fit]>>
                         /\ returned' = Append(returned, [clusters |-> out.clusters,
                                                          posts |-> out.posts])
                         /\ uuid_next' = out.uuid

\* the first call on the posts
ClusterPostsCall == returned = <<>> /\ cluster_posts_call

\* the same call repeated in the same process
ClusterPostsRepeat == Len(returned) = 1 /\ cluster_posts_call

Next == ClusterPostsCall \/ ClusterPostsRepeat

Spec == Init /\ [][Next]_vars

(***************************************************************************)
(* classify_sentiment(score), on scores in thousandths.                    *)
(***************************************************************************)
POSITIVE_THRESHOLD == 300      \* if score >= 0.3
NEGATIVE_THRESHOLD == -300     \* elif score <= -0.3

\* score > 0.3 in place of score >= 0.3
greater_than(x, threshold) == x > threshold

at_least(x, threshold) == x >= threshold
at_most(x, threshold) == x <= threshold

classify_sentiment(x) ==
    IF at_least(x, POSITIVE_THRESHOLD) THEN "positive"
    ELSE IF at_most(x, NEGATIVE_THRESHOLD) THEN "negative"
    ELSE "neutral"

InitClassify ==
    /\ score \in (-MaxMilli)..MaxMilli
    /\ category = None
    /\ MatchIdle /\ ClusterIdle /\ ScorerIdle /\ PipelineIdle

ClassifyCall ==
    /\ category = None
    /\ category' = classify_sentiment(score)
    /\ UNCHANGED <<score, keywords, exclude, matched, posts, n_clusters, fitted,
                   returned, uuid_next, scorerVars, pipelineVars>>

NextClassify == ClassifyCall

SpecClassify == InitClassify /\ [][NextClassify]_vars

(***************************************************************************)
(* aggregate_cluster_sentiment(posts).  The returned float total / len is  *)
(* kept as the fraction [num, den], num in thousandths; 0.0 is 0 / 1.      *)
(***************************************************************************)
\* the compound values of the members, in thousandths
Compounds == {-1000, -300, 500}

\* a member post: without 'sentiment', with a sentiment that has no
\* 'compound', or with a compound value
MemberPool ==
    {[id |-> "m"], [id |-> "m", sentiment |-> [neutral |-> 1000]]}
    \cup {[id |-> "m", sentiment |-> [compound |-> c]] : c \in Compounds}

\* p.get('sentiment', {}).get('compound', 0.0)
compound_of(p) ==
    IF "sentiment" \in DOMAIN p
    THEN (IF "compound" \in DOMAIN p.sentiment THEN p.sentiment.compound ELSE 0)
    ELSE 0

\* sum(... for p in posts)
RECURSIVE total_compound(_)
total_compound(ps) ==
    IF ps = <<>> THEN 0 ELSE compound_of(Head(ps)) + total_compound(Tail(ps))

\* a divisor that leaves out the members without a sentiment
scored_member_count(ps) == Cardinality({i \in 1..Len(ps) : "sentiment" \in DOMAIN ps[i]})

\* len(posts), the divisor
member_count(ps) == Len(ps)

aggregate_cluster_sentiment(ps) ==
    IF ps = <<>> THEN [num |-> 0, den |-> 1]
    ELSE [num |-> total_compound(ps), den |-> member_count(ps)]

InitAggregate ==
    /\ members \in BoundedSeq(MemberPool, MaxMembers)
    /\ average = NotReturned
    /\ MatchIdle /\ ClusterIdle /\ ClassifyIdle
    /\ GeminiIdle /\ InitThreadsIdle /\ FlowIdle /\ CallIdle /\ PipelineIdle

AggregateCall ==
    /\ average = NotReturned
    /\ average' = aggregate_cluster_sentiment(members)
    /\ UNCHANGED <<members, keywords, exclude, matched, posts, n_clusters, fitted,
                   returned, uuid_next, score, category>>
    /\ UNCHANGED <<envVars, geminiVars, initVars, flowVars, callVars, pipelineVars>>

NextAggregate == AggregateCall

SpecAggregate == InitAggregate /\ [][NextAggregate]_vars

(***************************************************************************)
(* sentiment_gemini.py: the generative scorer.  A prompt is kept as the    *)
(* kind of request and the document texts placed in it; a response as the  *)
(* JSON value its text parses to.  Sentiment values are in thousandths,    *)
(* delays in seconds.                                                      *)
(***************************************************************************)
GEMINI_MAX_RETRIES == 2            \* os.environ.get('GEMINI_MAX_RETRIES', '2')
GEMINI_RETRY_DELAY_SECONDS == 1    \* os.environ.get('GEMINI_RETRY_DELAY_SECONDS', '1')
SANITIZED_LENGTH == 2000           \* sanitized_text = text[:2000]
batch_size == 5                    \* batch_size = 5

RECURSIVE Repeat(_, _)
Repeat(s, n) ==
    IF n = 0 THEN ""
    ELSE IF n % 2 = 0 THEN LET half == Repeat(s, n \div 2) IN half \o half
    ELSE s \o Repeat(s, n - 1)

\* a post content longer than the sanitized length (MAX_CONTENT_LENGTH allows 10000)
LongText == Repeat("x", SANITIZED_LENGTH + 1)

\* the contents of the model: empty, whitespace only, a short text, a long text
Texts == {"", "   ", "great truck", LongText}

\* text[:n]
Truncate(s, n) == SubSeq(s, 1, Min(Len(s), n))

\* not text or not text.strip()
is_blank(s) == ~StripNonEmpty(s)

\* the value returned for an empty text
NEUTRAL_SENTIMENT == [compound |-> 0, positive |-> 0, negative |-> 0, neutral |-> 1000]

(***************************************************************************)
(* What the provider can answer to one generate_content(prompt).           *)
(***************************************************************************)
\* a JSON number, and a JSON string that float() cannot read
Num(x) == [type |-> "number", value |-> x, text |-> ""]
Str(t) == [type |-> "string", value |-> 0, text |-> t]

\* JSON objects a response can hold for one post
GoodEntry == [compound |-> Num(500), positive |-> Num(600),
              negative |-> Num(100), neutral |-> Num(300)]
WildEntry == [compound |-> Num(2500), positive |-> Num(1500),
              negative |-> Num(-200), neutral |-> Num(0)]
PartialEntry == [compound |-> Num(-400)]
TextEntry == [compound |-> Str("high"), positive |-> Num(600),
              negative |-> Num(100), neutral |-> Num(300)]

InvalidJson == [json |-> "invalid"]
JsonArray(items) == [json |-> "array", items |-> items]
JsonObject(fields) == [json |-> "object", fields |-> fields]

\* what response.text can parse to, for a prompt that holds n posts
ResponseBodies(kind, n) ==
    IF kind = "batch"
    THEN {InvalidJson, JsonObject(GoodEntry),
          JsonArray([i \in 1..n |-> GoodEntry]),
          JsonArray([i \in 1..n |-> WildEntry]),
          JsonArray([i \in 1..n |-> TextEntry]),
          JsonArray([i \in 1..(n - 1) |-> GoodEntry]),
          JsonArray([i \in 1..(n + 1) |-> GoodEntry])}
    ELSE {InvalidJson, JsonObject(PartialEntry), JsonObject(WildEntry),
          JsonObject(TextEntry), JsonArray(<<GoodEntry>>)}

\* str(e) of the exceptions generate_content raises besides TimeoutError
ErrorMessages == {"429 Rate limit exceeded", "Deadline Exceeded", "400 API key not valid"}

ProviderOutcomes(p) ==
    {[kind |-> "response", body |-> b] : b \in ResponseBodies(p.kind, Len(p.texts))}
    \cup {[kind |-> "TimeoutError"]}
    \cup {[kind |-> "Exception", message |-> m] : m \in ErrorMessages}

(***************************************************************************)
(* _call_gemini_with_retry(prompt, max_retries)                            *)
(***************************************************************************)
CallNone == [kind |-> "None"]      \* return None

TRANSIENT_MARKERS == {"rate", "429", "500", "502", "503", "504", "timeout", "deadline"}

\* any(x in error_str for x in [...]), error_str = str(e).lower()
is_transient(message) == \E x \in TRANSIENT_MARKERS : Contains(Lower(message), x)

\* 2 ** attempt
RECURSIVE Pow2(_)
Pow2(n) == IF n = 0 THEN 1 ELSE 2 * Pow2(n - 1)

\* a delay that does not grow: the factor 2 ** attempt left out
constant_delay(a) == GEMINI_RETRY_DELAY_SECONDS

\* delay = GEMINI_RETRY_DELAY_SECONDS * (2 ** attempt)
backoff_delay(a) == GEMINI_RETRY_DELAY_SECONDS * Pow2(a)

\* range(max_retries + 2) in place of range(max_retries + 1)
one_attempt_more(retries) == retries + 2

\* the attempts of the for loop: range(max_retries + 1)
attempts_allowed(retries) == retries + 1

\* the frame when the call starts: an empty range returns None at once
call_started(p, retries) ==
    /\ prompt' = p
    /\ max_retries' = retries
    /\ attempt' = 0
    /\ provider_calls' = 0
    /\ sleeps' = <<>>
    /\ last_error' = None
    /\ response' = IF attempts_allowed(retries) <= 0 THEN CallNone ELSE NotReturned

\* every failure is retried: the else branch of the except clause left out
always_retried(message) == FALSE

\* the else branch of `except Exception`: a non-retryable error returns None
returns_at_once(message) == ~is_transient(message)

\* the end of one iteration that caught a timeout or a transient error:
\* sleep unless this was the last attempt, then the next iteration or the
\* return None after the loop
after_failed_attempt ==
    /\ sleeps' = IF attempt < max_retries
                 THEN Append(sleeps, backoff_delay(attempt)) ELSE sleeps
    /\ attempt' = attempt + 1
    /\ response' = IF attempt + 1 < attempts_allowed(max_retries)
                   THEN NotReturned ELSE CallNone

\* one iteration of the for loop: one generate_content and what follows it
ProviderAttempt ==
    /\ pc \in {"call", "batch_call", "single_call", "score_call"}
    /\ response = NotReturned
    /\ provider_calls' = provider_calls + 1
    /\ \E outcome \in ProviderOutcomes(prompt) :
         IF outcome.kind = "response"
         THEN /\ response' = outcome
              /\ UNCHANGED <<attempt, sleeps, last_error>>
         ELSE IF outcome.kind = "TimeoutError"
         THEN /\ last_error' = "TimeoutError"
              /\ after_failed_attempt
         ELSE /\ last_error' = outcome.message
              /\ IF returns_at_once(outcome.message)
                 THEN /\ response' = CallNone
                      /\ UNCHANGED <<attempt, sleeps>>
                 ELSE after_failed_attempt
    /\ UNCHANGED <<prompt, max_retries>>
    /\ UNCHANGED <<keywords, exclude, matched, posts, n_clusters, fitted, returned,
                   uuid_next, score, category>>
    /\ UNCHANGED <<aggregateVars, envVars, geminiVars, initVars, flowVars, pipelineVars>>


(***************************************************************************)
(* _init_gemini(), run by one thread from its first line to its return.    *)
(* built says whether genai.Client(...) returns a client or raises.        *)
(***************************************************************************)
init_gemini(available, model, clients, key, built) ==
    IF available # None
    THEN [available |-> available, model |-> model, clients |-> clients]
    ELSE IF key = ""
    THEN [available |-> "False", model |-> model, clients |-> clients]
    ELSE IF built
    THEN [available |-> "True", model |-> clients + 1, clients |-> clients + 1]
    ELSE [available |-> "False", model |-> model, clients |-> clients]

\* not (not _init_gemini() or not _gemini_model)
gemini_ready(g) == g.available = "True" /\ g.model # NoClient

\* GEMINI_IMPORTED and is_gemini_available(), with the globals it leaves
gemini_probe(built) ==
    IF gemini_imported
    THEN init_gemini(gemini_available, gemini_model, clients_built, api_key, built)
    ELSE [available |-> gemini_available, model |-> gemini_model, clients |-> clients_built]

(***************************************************************************)
(* sentiment.py: _analyze_sentiment_vader(text).  polarity_scores is the   *)
(* NLTK analyzer, given here for the texts of the model: all four scores   *)
(* are 0.0 when the text has no word, a text without a lexicon word is all *)
(* neutral, 'great' is a positive word of the lexicon.                     *)
(***************************************************************************)
polarity_scores(t) ==
    IF is_blank(t) THEN [compound |-> 0, pos |-> 0, neg |-> 0, neu |-> 0]
    ELSE IF t = "great truck"
    THEN [compound |-> 625, pos |-> 804, neg |-> 0, neu |-> 196]
    ELSE [compound |-> 0, pos |-> 0, neg |-> 0, neu |-> 1000]

analyze_sentiment_vader(t) ==
    LET scores == polarity_scores(t)
    IN  [compound |-> scores.compound, positive |-> scores.pos,
         negative |-> scores.neg, neutral |-> scores.neu]

\* the VADER loop of analyze_posts_sentiment: results, strategies, analyzer calls
lexicon_fallback(ps) ==
    [results |-> [n \in 1..Len(ps) |->
                     with_field(ps[n], "sentiment", analyze_sentiment_vader(ps[n].content))],
     by |-> [n \in 1..Len(ps) |-> "vader"],
     lexicon |-> [n \in 1..Len(ps) |-> ps[n].content]]

(***************************************************************************)
(* Reading a response: json.loads and the float() of the four fields.  An  *)
(* evaluation gives a value, None, or the exception it raises.             *)
(***************************************************************************)
Value(v) == [is |-> "value", value |-> v]
NoValue == [is |-> "None"]
Raises(exc) == [is |-> "raise", exc |-> exc]

\* sentiment.get(field, 0.0)
field_or_zero(entry, field) == IF field \in DOMAIN entry THEN entry[field] ELSE Num(0)

SentimentFields == {"compound", "positive", "negative", "neutral"}

\* float(x) raises ValueError for a text that is no number
float_raises(entry) == \E f \in SentimentFields : field_or_zero(entry, f).type # "number"

\* the dict of the four float(...) values, as the provider gave them
to_vector(entry) == [f \in SentimentFields |-> field_or_zero(entry, f).value]

\* no length check: zip pairs what there is
count_unchecked(n_sentiments, n_posts) == FALSE

\* if len(sentiments) != len(posts)
count_mismatch(n_sentiments, n_posts) == n_sentiments # n_posts

\* `except json.JSONDecodeError` alone
catches_json_errors(exc) == exc = "JSONDecodeError"

\* _analyze_batch: `except Exception`
batch_catches(exc) == TRUE

\* analyze_sentiment_gemini: `except json.JSONDecodeError`, `except Exception`
single_catches(exc) == exc = "JSONDecodeError" \/ TRUE

\* the try block of _analyze_batch, for the batch and what the call returned
batch_try(batch, r) ==
    IF r = CallNone THEN NoValue
    ELSE IF r.body.json = "invalid" THEN Raises("JSONDecodeError")
    ELSE IF r.body.json = "object"
    THEN \* len() of a dict counts its keys; zip then yields the keys, a str has no .get
         IF count_mismatch(Cardinality(DOMAIN r.body.fields), Len(batch))
         THEN NoValue
         ELSE Raises("AttributeError")
    ELSE LET items == r.body.items
             n == Min(Len(items), Len(batch))
         IN  IF count_mismatch(Len(items), Len(batch)) THEN NoValue
             ELSE IF \E k \in 1..n : float_raises(items[k]) THEN Raises("ValueError")
             ELSE Value([k \in 1..n |->
                            with_field(batch[k], "sentiment", to_vector(items[k]))])

\* _analyze_batch after the prompt is built
analyze_batch(batch, r) ==
    LET tried == batch_try(batch, r)
    IN  IF tried.is = "raise" /\ batch_catches(tried.exc) THEN NoValue ELSE tried

\* the try block of analyze_sentiment_gemini
single_try(r) ==
    IF r = CallNone THEN NoValue
    ELSE IF r.body.json = "invalid" THEN Raises("JSONDecodeError")
    ELSE IF r.body.json = "array" THEN Raises("AttributeError")
    ELSE IF float_raises(r.body.fields) THEN Raises("ValueError")
    ELSE Value(to_vector(r.body.fields))

\* analyze_sentiment_gemini after the prompt is built
analyze_single(r) ==
    LET tried == single_try(r)
    IN  IF tried.is = "raise" /\ single_catches(tried.exc) THEN NoValue ELSE tried


(***************************************************************************)
(* analyze_posts_sentiment_gemini(posts): the batch loop and the fallback  *)
(* loop.  The code between two provider requests is one step of the model; *)
(* a step ends in the next request, in a return, or in an exception.       *)
(***************************************************************************)
NeedsCall(frame, i, j, res, by, p) ==
    [run |-> "call", pc |-> frame, batch_start |-> i, single_idx |-> j,
     results |-> res, by |-> by, prompt |-> p]
Returns(res, by) == [run |-> "return", ok |-> TRUE, results |-> res, by |-> by]
ReturnsNone == [run |-> "return", ok |-> FALSE, results |-> <<>>, by |-> <<>>]
Propagates(exc) == [run |-> "raise", exc |-> exc]

\* posts[i:i + batch_size], i counted from 0
batch_of(ps, i) == SubSeq(ps, i + 1, Min(i + batch_size, Len(ps)))

\* _analyze_batch: the texts placed in posts_text
batch_prompt(batch) ==
    [kind |-> "batch", texts |-> [n \in 1..Len(batch) |-> batch[n].content]]

\* the text is placed in the prompt as it is, without text[:2000]
unsanitized_prompt(t) == [kind |-> "single", texts |-> <<t>>]

\* analyze_sentiment_gemini: sanitized_text = text[:2000] placed in the prompt
single_prompt(t) == [kind |-> "single", texts |-> <<Truncate(t, SANITIZED_LENGTH)>>]

RECURSIVE next_batch(_, _, _, _), next_single(_, _, _, _, _)

\* a failed document is scored by the lexicon and the loop goes on
scored_by_lexicon(ps, i, j, res, by) ==
    next_single(ps, i, j + 1,
                Append(res, with_field(ps[j + 1], "sentiment",
                                       analyze_sentiment_vader(ps[j + 1].content))),
                Append(by, "vader"))

\* `return None` of the fallback loop, to trigger the VADER fallback
single_failed(ps, i, j, res, by) == ReturnsNone

\* the head of `for i in range(0, len(posts), batch_size)`
next_batch(ps, i, res, by) ==
    IF i >= Len(ps) THEN Returns(res, by)
    ELSE NeedsCall("batch_call", i, i, res, by, batch_prompt(batch_of(ps, i)))

\* the head of `for post in batch`, j the index of the post counted from 0;
\* analyze_sentiment_gemini answers an empty text without a request
next_single(ps, i, j, res, by) ==
    IF j >= Min(i + batch_size, Len(ps)) THEN next_batch(ps, i + batch_size, res, by)
    ELSE IF is_blank(ps[j + 1].content)
    THEN next_single(ps, i, j + 1,
                     Append(res, with_field(ps[j + 1], "sentiment", NEUTRAL_SENTIMENT)),
                     Append(by, "gemini"))
    ELSE NeedsCall("single_call", i, j, res, by, single_prompt(ps[j + 1].content))

\* _analyze_batch has returned: extend the results or start the fallback loop
after_batch(ps, i, res, by, r) ==
    LET batch == batch_of(ps, i)
        batch_results == analyze_batch(batch, r)
    IN  IF batch_results.is = "raise" THEN Propagates(batch_results.exc)
        ELSE IF batch_results.is = "value" /\ batch_results.value # <<>>
        THEN next_batch(ps, i + batch_size, res \o batch_results.value,
                        by \o [n \in 1..Len(batch_results.value) |-> "gemini"])
        ELSE next_single(ps, i, i, res, by)

\* analyze_sentiment_gemini has returned in the fallback loop
after_single(ps, i, j, res, by, r) ==
    LET sentiment == analyze_single(r)
    IN  IF sentiment.is = "raise" THEN Propagates(sentiment.exc)
        ELSE IF sentiment.is = "value"
        THEN next_single(ps, i, j + 1,
                         Append(res, with_field(ps[j + 1], "sentiment", sentiment.value)),
                         Append(by, "gemini"))
        ELSE single_failed(ps, i, j, res, by)

\* the variables of the model that the scorer does not touch
otherVars == <<keywords, exclude, matched, posts, n_clusters, fitted, returned,
               uuid_next, score, category, aggregateVars, initVars, pipelineVars>>

\* analyze_posts_sentiment goes on with what analyze_posts_sentiment_gemini does
\* next: `if result: return result`, else the VADER loop over all the posts
posts_continue(k) ==
    IF k.run = "call"
    THEN /\ pc' = k.pc
         /\ batch_start' = k.batch_start
         /\ single_idx' = k.single_idx
         /\ results' = k.results
         /\ scored_by' = k.by
         /\ call_started(k.prompt, GEMINI_MAX_RETRIES)
         /\ UNCHANGED <<lexicon_calls, output, raised>>
    ELSE IF k.run = "raise"
    THEN /\ pc' = "posts_done"
         /\ raised' = k.exc
         /\ UNCHANGED <<batch_start, single_idx, results, scored_by, lexicon_calls,
                        output, callVars>>
    ELSE IF k.ok /\ k.results # <<>>
    THEN /\ pc' = "posts_done"
         /\ output' = k.results
         /\ results' = k.results
         /\ scored_by' = k.by
         /\ UNCHANGED <<batch_start, single_idx, lexicon_calls, raised, callVars>>
    ELSE LET vader == lexicon_fallback(sentiment_posts)
         IN  /\ pc' = "posts_done"
             /\ output' = vader.results
             /\ scored_by' = vader.by
             /\ lexicon_calls' = lexicon_calls \o vader.lexicon
             /\ UNCHANGED <<batch_start, single_idx, results, raised, callVars>>

\* analyze_posts_sentiment(posts) up to its first provider request or its return
AnalyzePostsSentiment ==
    /\ pc = "analyze_posts_sentiment"
    /\ \E built \in BOOLEAN :
         LET g == gemini_probe(built)
         IN  /\ gemini_available' = g.available
             /\ gemini_model' = g.model
             /\ clients_built' = g.clients
             /\ IF gemini_imported /\ gemini_ready(g)
                THEN posts_continue(next_batch(sentiment_posts, 0, <<>>, <<>>))
                ELSE posts_continue(ReturnsNone)
    /\ UNCHANGED <<text, sentiment_posts, envVars, otherVars>>

\* the batch request has returned
BatchReturn ==
    /\ pc = "batch_call"
    /\ response # NotReturned
    /\ posts_continue(after_batch(sentiment_posts, batch_start, results, scored_by, response))
    /\ UNCHANGED <<text, sentiment_posts, envVars, geminiVars, otherVars>>

\* the request for one post of a failed batch has returned
SingleReturn ==
    /\ pc = "single_call"
    /\ response # NotReturned
    /\ posts_continue(after_single(sentiment_posts, batch_start, single_idx,
                                   results, scored_by, response))
    /\ UNCHANGED <<text, sentiment_posts, envVars, geminiVars, otherVars>>

(***************************************************************************)
(* sentiment.py: analyze_sentiment(text), the single-document entry point. *)
(***************************************************************************)
\* the fallback to VADER at the end of analyze_sentiment
score_with_vader ==
    /\ pc' = "score_done"
    /\ output' = analyze_sentiment_vader(text)
    /\ scored_by' = <<"vader">>
    /\ lexicon_calls' = Append(lexicon_calls, text)
    /\ UNCHANGED <<batch_start, single_idx, results, raised, callVars>>

\* if not text or not text.strip()
short_circuits(t) == is_blank(t)

AnalyzeSentiment ==
    /\ pc = "analyze_sentiment"
    /\ IF short_circuits(text)
       THEN /\ pc' = "score_done"
            /\ output' = NEUTRAL_SENTIMENT
            /\ scored_by' = <<"neutral">>
            /\ UNCHANGED <<batch_start, single_idx, results, lexicon_calls, raised,
                           callVars, geminiVars>>
       ELSE \E built \in BOOLEAN :
              LET g == gemini_probe(built)
              IN  /\ gemini_available' = g.available
                  /\ gemini_model' = g.model
                  /\ clients_built' = g.clients
                  /\ IF gemini_imported /\ gemini_ready(g)
                     THEN IF is_blank(text)
                          THEN /\ pc' = "score_done"
                               /\ output' = NEUTRAL_SENTIMENT
                               /\ scored_by' = <<"gemini">>
                               /\ UNCHANGED <<batch_start, single_idx, results,
                                              lexicon_calls, raised, callVars>>
                          ELSE /\ pc' = "score_call"
                               /\ call_started(single_prompt(text), GEMINI_MAX_RETRIES)
                               /\ UNCHANGED <<batch_start, single_idx, results, scored_by,
                                              lexicon_calls, output, raised>>
                     ELSE score_with_vader
    /\ UNCHANGED <<text, sentiment_posts, envVars, otherVars>>

\* analyze_sentiment_gemini has returned to analyze_sentiment
ScoreReturn ==
    /\ pc = "score_call"
    /\ response # NotReturned
    /\ LET result == analyze_single(response)
       IN  IF result.is = "raise"
           THEN /\ pc' = "score_done"
                /\ raised' = result.exc
                /\ UNCHANGED <<batch_start, single_idx, results, scored_by,
                               lexicon_calls, output, callVars>>
           ELSE IF result.is = "value"
           THEN /\ pc' = "score_done"
                /\ output' = result.value
                /\ scored_by' = <<"gemini">>
                /\ UNCHANGED <<batch_start, single_idx, results, lexicon_calls,
                               raised, callVars>>
           ELSE score_with_vader
    /\ UNCHANGED <<text, sentiment_posts, envVars, geminiVars, otherVars>>

(***************************************************************************)
(* SpecScorer: one call of analyze_posts_sentiment on at most MaxDocs      *)
(* posts, or of analyze_sentiment on one text, or of                       *)
(* _call_gemini_with_retry with max_retries up to MaxRetries, in a process *)
(* whose provider is or is not configured.                                 *)
(***************************************************************************)
\* the contents of the posts repeat a pattern of two texts
PostTexts == {"", "great truck", LongText}
SentimentPostLists ==
    {[i \in 1..n |-> [id |-> "p" \o ToString(i),
                      content |-> IF i % 2 = 1 THEN odd ELSE even]] :
        n \in 0..MaxDocs, odd \in PostTexts, even \in PostTexts}

ScorerOtherIdle ==
    /\ MatchIdle /\ ClusterIdle /\ ClassifyIdle /\ AggregateIdle /\ InitThreadsIdle
    /\ PipelineIdle

InitScorer ==
    /\ ScorerOtherIdle
    /\ batch_start = 0 /\ single_idx = 0 /\ results = <<>> /\ scored_by = <<>>
    /\ lexicon_calls = <<>> /\ output = NotReturned /\ raised = None
    /\ \/ /\ pc = "analyze_posts_sentiment"
          /\ sentiment_posts \in SentimentPostLists
          /\ text = ""
          /\ gemini_imported \in BOOLEAN /\ api_key \in {"", "key"}
          /\ gemini_available = None /\ gemini_model = NoClient /\ clients_built = 0
          /\ CallIdle
       \/ /\ pc = "analyze_sentiment"
          /\ text \in Texts
          /\ sentiment_posts = <<>>
          /\ gemini_imported \in BOOLEAN /\ api_key \in {"", "key"}
          /\ gemini_available = None /\ gemini_model = NoClient /\ clients_built = 0
          /\ CallIdle
       \/ /\ pc = "call"
          /\ text = "" /\ sentiment_posts = <<>>
          /\ gemini_imported = TRUE /\ api_key = "key"
          /\ gemini_available = "True" /\ gemini_model = 1 /\ clients_built = 1
          /\ prompt \in {single_prompt(t) : t \in Texts \ {"", "   "}}
          /\ max_retries \in 0..MaxRetries
          /\ attempt = 0 /\ provider_calls = 0 /\ sleeps = <<>> /\ last_error = None
          /\ response = NotReturned

NextScorer ==
    \/ AnalyzePostsSentiment
    \/ BatchReturn
    \/ SingleReturn
    \/ AnalyzeSentiment
    \/ ScoreReturn
    \/ ProviderAttempt

SpecScorer == InitScorer /\ [][NextScorer]_vars

\* The interpreter runs the one thread of a call until it returns, and every
\* provider request ends in a response or in an exception.
SpecScorerFair == SpecScorer /\ WF_vars(NextScorer)


(***************************************************************************)
(* SpecInit: _init_gemini() called by the threads of the server, each call *)
(* running statement by statement: the test of _gemini_available, the read *)
(* of the key, the construction of the client with the assignment of       *)
(* _gemini_model, and the assignment of _gemini_available are steps that   *)
(* other threads can run between.                                          *)
(***************************************************************************)
Threads == 1..MaxThreads

init_unchanged ==
    UNCHANGED <<keywords, exclude, matched, posts, n_clusters, fitted, returned,
                uuid_next, score, category, aggregateVars, envVars, flowVars, callVars,
                pipelineVars>>

\* a thread calls _init_gemini (through is_gemini_available or a scorer)
InitCall(t) ==
    /\ init_pc[t] \in {"idle", "returned"}
    /\ init_pc' = [init_pc EXCEPT ![t] = "check"]
    /\ init_local' = [init_local EXCEPT ![t] = None]
    /\ UNCHANGED geminiVars
    /\ init_unchanged

\* if _gemini_available is not None: return _gemini_available
InitCheck(t) ==
    /\ init_pc[t] = "check"
    /\ IF gemini_available # None
       THEN /\ init_pc' = [init_pc EXCEPT ![t] = "returned"]
            /\ init_local' = [init_local EXCEPT ![t] = gemini_available]
       ELSE /\ init_pc' = [init_pc EXCEPT ![t] = "read_key"]
            /\ UNCHANGED init_local
    /\ UNCHANGED geminiVars
    /\ init_unchanged

\* api_key = os.environ.get('GEMINI_API_KEY'); without one the flag is False
InitReadKey(t) ==
    /\ init_pc[t] = "read_key"
    /\ IF api_key = ""
       THEN /\ gemini_available' = "False"
            /\ init_pc' = [init_pc EXCEPT ![t] = "returned"]
            /\ init_local' = [init_local EXCEPT ![t] = "False"]
       ELSE /\ init_pc' = [init_pc EXCEPT ![t] = "construct"]
            /\ UNCHANGED <<gemini_available, init_local>>
    /\ UNCHANGED <<gemini_model, clients_built>>
    /\ init_unchanged

\* _gemini_model = genai.Client(...), or the exception of the import or of
\* the constructor
InitConstruct(t) ==
    /\ init_pc[t] = "construct"
    /\ \E built \in BOOLEAN :
         IF built
         THEN /\ clients_built' = clients_built + 1
              /\ gemini_model' = clients_built + 1
              /\ init_pc' = [init_pc EXCEPT ![t] = "set_true"]
         ELSE /\ init_pc' = [init_pc EXCEPT ![t] = "set_false"]
              /\ UNCHANGED <<clients_built, gemini_model>>
    /\ UNCHANGED <<gemini_available, init_local>>
    /\ init_unchanged

\* _gemini_available = True; return True
InitSetTrue(t) ==
    /\ init_pc[t] = "set_true"
    /\ gemini_available' = "True"
    /\ init_pc' = [init_pc EXCEPT ![t] = "returned"]
    /\ init_local' = [init_local EXCEPT ![t] = "True"]
    /\ UNCHANGED <<gemini_model, clients_built>>
    /\ init_unchanged

\* except Exception: _gemini_available = False; return False
InitSetFalse(t) ==
    /\ init_pc[t] = "set_false"
    /\ gemini_available' = "False"
    /\ init_pc' = [init_pc EXCEPT ![t] = "returned"]
    /\ init_local' = [init_local EXCEPT ![t] = "False"]
    /\ UNCHANGED <<gemini_model, clients_built>>
    /\ init_unchanged

InitInit ==
    /\ MatchIdle /\ ClusterIdle /\ ClassifyIdle /\ AggregateIdle /\ FlowIdle /\ CallIdle
    /\ PipelineIdle
    /\ gemini_imported = TRUE
    /\ api_key \in {"", "key"}
    /\ gemini_available = None /\ gemini_model = NoClient /\ clients_built = 0
    /\ init_pc = [t \in Threads |-> "idle"]
    /\ init_local = [t \in Threads |-> None]

NextInit ==
    \E t \in Threads :
        \/ InitCall(t)
        \/ InitCheck(t)
        \/ InitReadKey(t)
        \/ InitConstruct(t)
        \/ InitSetTrue(t)
        \/ InitSetFalse(t)

SpecInit == InitInit /\ [][NextInit]_vars

(***************************************************************************)
(* preprocessing.py: clean_text(text).  re.sub scans the text from the     *)
(* left: where the pattern matches, the match is replaced and the scan     *)
(* goes on after it, elsewhere the character is kept.  Positions are       *)
(* 1-based.  The texts of the model have the blank as only whitespace.     *)
(***************************************************************************)
Digits == "0123456789"

char_at(s, i) == SubSeq(s, i, i)

\* \s
is_space(c) == c = " "

\* [a-zA-Z0-9]
is_alnum(c) == Contains(LowerLetters, c) \/ Contains(UpperLetters, c) \/ Contains(Digits, c)

\* \w
is_word(c) == is_alnum(c) \/ c = "_"

\* \S+ from position i: the position after the run of non-whitespace
RECURSIVE skip_non_space(_, _)
skip_non_space(s, i) ==
    IF i > Len(s) \/ is_space(char_at(s, i)) THEN i ELSE skip_non_space(s, i + 1)

\* \w+ from position i: the position after the run of word characters
RECURSIVE skip_word(_, _)
skip_word(s, i) ==
    IF i > Len(s) \/ ~is_word(char_at(s, i)) THEN i ELSE skip_word(s, i + 1)

\* prefix\S+ matches at position i
url_at(s, i, prefix) ==
    /\ i + Len(prefix) <= Len(s)
    /\ SubSeq(s, i, i + Len(prefix) - 1) = prefix
    /\ ~is_space(char_at(s, i + Len(prefix)))

\* re.sub(r'http\S+|www\S+', '', text)
RECURSIVE remove_urls(_, _)
remove_urls(s, i) ==
    IF i > Len(s) THEN ""
    ELSE IF url_at(s, i, "http") \/ url_at(s, i, "www")
         THEN remove_urls(s, skip_non_space(s, i))
         ELSE char_at(s, i) \o remove_urls(s, i + 1)

\* a '#' or '@' followed by a word character
tag_at(s, i, sign) ==
    i < Len(s) /\ char_at(s, i) = sign /\ is_word(char_at(s, i + 1))

\* re.sub(r'@\w+', '', text)
RECURSIVE remove_mentions(_, _)
remove_mentions(s, i) ==
    IF i > Len(s) THEN ""
    ELSE IF tag_at(s, i, "@")
         THEN remove_mentions(s, skip_word(s, i + 1))
         ELSE char_at(s, i) \o remove_mentions(s, i + 1)

\* re.sub(r'#(\w+)', r'\1', text)
RECURSIVE keep_hashtag_text(_, _)
keep_hashtag_text(s, i) ==
    IF i > Len(s) THEN ""
    ELSE IF tag_at(s, i, "#")
         THEN LET j == skip_word(s, i + 1)
              IN  SubSeq(s, i + 1, j - 1) \o keep_hashtag_text(s, j)
         ELSE char_at(s, i) \o keep_hashtag_text(s, i + 1)

\* re.sub(r'[^a-zA-Z0-9\s]', ' ', text)
RECURSIVE blank_specials(_)
blank_specials(s) ==
    IF s = "" THEN ""
    ELSE LET c == char_at(s, 1)
         IN  (IF is_alnum(c) \/ is_space(c) THEN c ELSE " ")
             \o blank_specials(SubSeq(s, 2, Len(s)))

\* text.split(): the runs of non-whitespace
split(s) == SplitWords(s, "")

\* re.sub(r'\s+', ' ', text).strip()
collapse_whitespace(s) == Join(split(s))

clean_text(t) ==
    IF t = "" THEN ""
    ELSE LET lowered == Lower(t)
             no_urls == remove_urls(lowered, 1)
             no_mentions == remove_mentions(no_urls, 1)
             no_hashes == keep_hashtag_text(no_mentions, 1)
             no_specials == blank_specials(no_hashes)
         IN  collapse_whitespace(no_specials)

(***************************************************************************)
(* SpecClean: clean_text applied to a text and then to its own output, as  *)
(* test_idempotent does, for every text made of at most MaxPieces pieces   *)
(* of TextPieces.                                                          *)
(***************************************************************************)
TextPieces == {"ht", "tp", "ww", "W", "#", "@", " ", "."}

RECURSIVE Concat(_)
Concat(pieces) == IF Len(pieces) = 0 THEN "" ELSE pieces[1] \o Concat(Tail(pieces))

RawTexts == {Concat(pieces) : pieces \in BoundedSeq(TextPieces, MaxPieces)}

CleanOtherIdle ==
    MatchIdle /\ ClusterIdle /\ ClassifyIdle /\ ScorerIdle /\ AnalyzeIdle /\ AnalyzerIdle

InitClean ==
    /\ raw_text \in RawTexts
    /\ first_pass = None
    /\ second_pass = None
    /\ CleanOtherIdle

clean_unchanged ==
    UNCHANGED <<keywords, exclude, matched, posts, n_clusters, fitted, returned,
                uuid_next, score, category, scorerVars, analyzeVars, analyzerVars>>

\* first_pass = clean_text(text)
CleanCall ==
    /\ first_pass = None
    /\ first_pass' = clean_text(raw_text)
    /\ UNCHANGED <<raw_text, second_pass>>
    /\ clean_unchanged

\* second_pass = clean_text(first_pass)
CleanAgain ==
    /\ first_pass # None /\ second_pass = None
    /\ second_pass' = clean_text(first_pass)
    /\ UNCHANGED <<raw_text, first_pass>>
    /\ clean_unchanged

NextClean == CleanCall \/ CleanAgain

SpecClean == InitClean /\ [][NextClean]_vars

(***************************************************************************)
(* preprocessing.py: tokenize, remove_stop_words, preprocess_posts.        *)
(* english_stop_words holds the words of NLTK's English list that occur    *)
(* in the texts of the model.                                              *)
(***************************************************************************)
DOMAIN_STOP_WORDS ==
    {"truck", "trucks", "trucker", "truckers", "trucking",
     "peterbilt", "pete", "paccar",
     "just", "like", "got", "get", "would", "could", "really",
     "one", "also", "even", "much", "still", "way", "well"}

english_stop_words == {"the", "this", "and", "are"}

\* _get_stop_words()
get_stop_words == english_stop_words \cup DOMAIN_STOP_WORDS

tokenize(t) == IF t = "" THEN <<>> ELSE split(t)

\* [t for t in tokens if t not in stop_words and len(t) > 2]
remove_stop_words(tokens) ==
    SelectSeq(tokens, LAMBDA t : t \notin get_stop_words /\ Len(t) > 2)

preprocess_post(post) ==
    LET cleaned == clean_text(post.content)
    IN  with_field(with_field(post, "cleaned_content", cleaned),
                   "tokens", remove_stop_words(tokenize(cleaned)))

preprocess_posts(ps) == [i \in 1..Len(ps) |-> preprocess_post(ps[i])]

(***************************************************************************)
(* api.py: validate_posts and the cluster count of /api/analyze.  The      *)
(* requests of the model are JSON arrays of objects whose content, when    *)
(* present, is a string.                                                   *)
(***************************************************************************)
MAX_POSTS_PER_REQUEST == 500
MAX_CONTENT_LENGTH == 10000
MIN_CLUSTERS == 3          \* max(3, ...)
MAX_CLUSTERS == 10         \* min(10, ...)

\* make_error_response(code, message, status_code=...)
make_error_response(code, status_code) == [status |-> status_code, code |-> code]

\* the body of the for loop of validate_posts: the error of one post, or NoError
post_error(post) ==
    IF "content" \notin DOMAIN post THEN make_error_response("MISSING_FIELD", 400)
    ELSE IF Len(post.content) > MAX_CONTENT_LENGTH
    THEN make_error_response("CONTENT_TOO_LARGE", 413)
    ELSE IF "id" \notin DOMAIN post THEN make_error_response("MISSING_FIELD", 400)
    ELSE NoError

\* validate_posts(posts): NoError when the posts are accepted, else the error of
\* the first post that has one
validate_posts(ps) ==
    IF Len(ps) > MAX_POSTS_PER_REQUEST
    THEN make_error_response("PAYLOAD_TOO_LARGE", 413)
    ELSE LET bad == {i \in 1..Len(ps) : post_error(ps[i]) # NoError}
         IN  IF bad = {} THEN NoError
             ELSE post_error(ps[CHOOSE i \in bad : \A j \in bad : i <= j])

Max(a, b) == IF a > b THEN a ELSE b

\* int(math.sqrt(n / 2)): the root truncated, the largest r with r * r <= n / 2
int_sqrt_of_half(n) ==
    CHOOSE r \in 0..n : 2 * r * r <= n /\ n < 2 * (r + 1) * (r + 1)

\* the count without its lower clamp
cluster_count_unclamped(n) == Min(int_sqrt_of_half(n), n)

\* n_clusters = max(3, min(10, int(math.sqrt(len(posts) / 2))))
\* n_clusters = min(n_clusters, len(posts))
cluster_count(n) ==
    Min(Max(MIN_CLUSTERS, Min(MAX_CLUSTERS, int_sqrt_of_half(n))), n)

(***************************************************************************)
(* api.py: analyze(), the handler of POST /api/analyze, as one step.  Its  *)
(* call of analyze_posts_sentiment returns what SpecScorer shows it can    *)
(* return: every post with the VADER vector of its content, or, when the   *)
(* provider is ready, every post with the vector the provider gave it.     *)
(* Its call of cluster_posts is the cluster_posts of Spec.  The requests   *)
(* of the model carry no source, author or publishedAt, and                *)
(* processingTimeMs, a clock reading, is left out of the response.         *)
(***************************************************************************)
ProviderCompounds == {299, 300}

\* a sentiment dict the provider can give a post
provider_vector(c) == [compound |-> c, positive |-> 600, negative |-> 100, neutral |-> 300]

\* analyze_posts_sentiment(posts) scored by the provider
provider_scored(ps) ==
    {[i \in 1..Len(ps) |-> with_field(ps[i], "sentiment", provider_vector(c[i]))] :
       c \in [1..Len(ps) -> ProviderCompounds]}

\* what analyze_posts_sentiment(posts) can return when the provider is in state g
scored_posts(ps, g) ==
    {lexicon_fallback(ps).results} \cup (IF gemini_ready(g) THEN provider_scored(ps) ELSE {})

\* cluster_posts(posts, n_clusters): the (clusters, posts) it can return and the
\* identifiers it has used
cluster_posts_outcomes(ps, k, uuid) ==
    LET guarded(pseudo_cluster) ==
            [clusters |-> guard_return(pseudo_cluster, ps).clusters,
             posts |-> guard_return(pseudo_cluster, ps).posts, uuid |-> uuid]
    IN  IF too_few_posts(ps, k) THEN {guarded(insufficient_posts(k))}
        ELSE IF too_few_documents(valid_indices(ps), k) THEN {guarded(insufficient_documents)}
        ELSE UNION {
               IF feature_names = {} THEN {guarded(insufficient_terms)}
               ELSE {cluster_posts_fitted(ps, k, fit, uuid) :
                       fit \in kmeans_fits(valid_documents_of(ps), feature_names, k)}
               : feature_names \in vocabulary_choices(valid_documents_of(ps))}

\* cluster.get('postIds', [])
post_ids_of(cluster) == IF "postIds" \in DOMAIN cluster THEN cluster.postIds ELSE <<>>

\* [p for p in clustered_posts if p.get('id') in cluster_post_ids]
posts_with_ids(clustered_posts, cluster) ==
    LET cluster_post_ids == {post_ids_of(cluster)[j] : j \in 1..Len(post_ids_of(cluster))}
    IN  SelectSeq(clustered_posts, LAMBDA p : p.id \in cluster_post_ids)

\* round(avg_sentiment, 3), in thousandths: the thousandths nearest to the
\* float total / len.  Where the quotient is halfway in decimals the float is
\* not, and its binary value decides: either neighbour.
round3(avg) ==
    LET floor == avg.num \div avg.den
        twice_rest == 2 * (avg.num - floor * avg.den)
    IN  IF twice_rest < avg.den THEN {floor}
        ELSE IF twice_rest > avg.den THEN {floor + 1}
        ELSE {floor, floor + 1}

\* classify_sentiment(avg_sentiment): the thresholds met by the quotient num / den
classify_mean(avg) ==
    IF at_least(avg.num, POSITIVE_THRESHOLD * avg.den) THEN "positive"
    ELSE IF at_most(avg.num, NEGATIVE_THRESHOLD * avg.den) THEN "negative"
    ELSE "neutral"

\* Step 4 for one cluster: the cluster dicts it can become
with_sentiment_of(cluster, clustered_posts) ==
    LET avg_sentiment == aggregate_cluster_sentiment(posts_with_ids(clustered_posts, cluster))
    IN  {with_field(with_field(cluster, "sentiment", rounded),
                    "sentimentLabel", classify_mean(avg_sentiment)) :
           rounded \in round3(avg_sentiment)}

\* Step 4: the for loop over clusters
with_sentiments(clusters, clustered_posts) ==
    LET choices == UNION {with_sentiment_of(clusters[c], clustered_posts) :
                            c \in 1..Len(clusters)}
    IN  {cs \in [1..Len(clusters) -> choices] :
           \A c \in 1..Len(clusters) : cs[c] \in with_sentiment_of(clusters[c], clustered_posts)}

\* post.get(key)
get_or_none(post, key) == IF key \in DOMAIN post THEN post[key] ELSE None

response_post(post) ==
    [id |-> post.id,
     content |-> post.content,
     sentiment |-> post.sentiment,
     clusterId |-> get_or_none(post, "clusterId"),
     keywords |-> SubSeq(post.tokens, 1, Min(REPORTED_KEYWORDS, Len(post.tokens)))]

ok_response(clusters, response_posts, posts_analyzed) ==
    [status |-> 200, clusters |-> clusters, posts |-> response_posts,
     postsAnalyzed |-> posts_analyzed]

analyze_unchanged ==
    UNCHANGED <<keywords, exclude, matched, posts, n_clusters, fitted, returned,
                score, category, aggregateVars, envVars, initVars, flowVars, callVars,
                cleanVars, analyzerVars, request_posts>>

\* POST /api/analyze
AnalyzeCall ==
    /\ api_response = NotReturned
    /\ analyze_unchanged
    /\ IF validate_posts(request_posts) # NoError
       THEN /\ api_response' = validate_posts(request_posts)
            /\ UNCHANGED <<k_passed, uuid_next, geminiVars>>
       ELSE IF Len(request_posts) = 0
       THEN /\ api_response' = ok_response(<<>>, <<>>, 0)
            /\ UNCHANGED <<k_passed, uuid_next, geminiVars>>
       ELSE \E built \in BOOLEAN :
              LET g == gemini_probe(built)
                  preprocessed == preprocess_posts(request_posts)
                  k == cluster_count(Len(request_posts))
              IN  \E with_sentiment \in scored_posts(preprocessed, g) :
                  \E out \in cluster_posts_outcomes(with_sentiment, k, uuid_next) :
                  \E clusters \in with_sentiments(out.clusters, out.posts) :
                    /\ api_response' =
                         ok_response(clusters,
                                     [i \in 1..Len(out.posts) |-> response_post(out.posts[i])],
                                     Len(request_posts))
                    /\ k_passed' = k
                    /\ uuid_next' = out.uuid
                    /\ gemini_available' = g.available
                    /\ gemini_model' = g.model
                    /\ clients_built' = g.clients

(***************************************************************************)
(* SpecAnalyze: one POST /api/analyze.  The request has at most            *)
(* MaxRequest posts with contents of RequestContents and ids that are      *)
(* distinct or all the same, or lacks a required field, or, in a process   *)
(* without provider, has up to MAX_POSTS_PER_REQUEST + 1 posts of empty    *)
(* content.                                                                *)
(***************************************************************************)
RequestContents == <<"", "Electric trucks!", "The #sleeper">>

\* the content lists of n posts, by non-decreasing position in RequestContents
ContentChoices(n) ==
    {c \in [1..n -> 1..Len(RequestContents)] : \A i \in 1..(n - 1) : c[i] <= c[i + 1]}

ShortRequests ==
    UNION {{[i \in 1..n |-> [id |-> IF distinct THEN "p" \o ToString(i) ELSE "p1",
                             content |-> RequestContents[c[i]]]] :
              c \in ContentChoices(n), distinct \in BOOLEAN} : n \in 0..MaxRequest}

InvalidRequests == {<<[content |-> "sleeper"]>>, <<[id |-> "p1"]>>}

LongRequests ==
    {[i \in 1..n |-> [id |-> "p" \o ToString(i), content |-> ""]] :
       n \in (MaxRequest + 1)..(MAX_POSTS_PER_REQUEST + 1)}

AnalyzeOtherIdle ==
    /\ MatchIdle /\ ClusterIdle /\ ClassifyIdle /\ AggregateIdle /\ InitThreadsIdle
    /\ FlowIdle /\ CallIdle /\ CleanIdle /\ AnalyzerIdle

InitAnalyze ==
    /\ AnalyzeOtherIdle
    /\ gemini_imported = TRUE
    /\ gemini_available = None /\ gemini_model = NoClient /\ clients_built = 0
    /\ \/ api_key \in {"", "key"} /\ request_posts \in ShortRequests \cup InvalidRequests
       \/ api_key = "" /\ request_posts \in LongRequests
    /\ k_passed = 0
    /\ api_response = NotReturned

NextAnalyze == AnalyzeCall

SpecAnalyze == InitAnalyze /\ [][NextAnalyze]_vars

(***************************************************************************)
(* sentiment.py: _get_analyzer() and its caller _analyze_sentiment_vader,  *)
(* run by the request threads.  _get_analyzer takes no lock; a step of a   *)
(* thread is one read or one write of the module global _sia or of an      *)
(* analyzer's lexicon.  sia_lexicon[a] is the lexicon of the a-th          *)
(* SentimentIntensityAnalyzer built, sia_local[t] the analyzer thread t    *)
(* holds in `sia` and the lexicon its polarity_scores has read.            *)
(***************************************************************************)
VADER_LEXICON == "vader_lexicon"
WITH_CUSTOM_LEXICON == "vader_lexicon + CUSTOM_LEXICON"

\* a thread that holds no analyzer and has scored nothing
NoLocal == [sia |-> NoAnalyzer, lexicon |-> None]

analyzer_unchanged ==
    UNCHANGED <<keywords, exclude, matched, posts, n_clusters, fitted, returned,
                uuid_next, score, category, scorerVars, cleanVars, analyzeVars>>

\* a thread calls _analyze_sentiment_vader(text): sia = _get_analyzer()
VaderCall(t) ==
    /\ sia_pc[t] \in {"idle", "scored"}
    /\ sia_pc' = [sia_pc EXCEPT ![t] = "check"]
    /\ sia_local' = [sia_local EXCEPT ![t] = NoLocal]
    /\ UNCHANGED <<sia, sia_lexicon>>
    /\ analyzer_unchanged

\* if _sia is None:
AnalyzerCheck(t) ==
    /\ sia_pc[t] = "check"
    /\ sia_pc' = [sia_pc EXCEPT ![t] = IF sia = NoAnalyzer THEN "construct" ELSE "return"]
    /\ UNCHANGED <<sia, sia_lexicon, sia_local>>
    /\ analyzer_unchanged

\* _sia = SentimentIntensityAnalyzer()
AnalyzerConstruct(t) ==
    /\ sia_pc[t] = "construct"
    /\ sia_lexicon' = Append(sia_lexicon, VADER_LEXICON)
    /\ sia' = Len(sia_lexicon) + 1
    /\ sia_pc' = [sia_pc EXCEPT ![t] = "update"]
    /\ UNCHANGED sia_local
    /\ analyzer_unchanged

\* _sia.lexicon.update(CUSTOM_LEXICON), on the analyzer _sia names now
AnalyzerUpdate(t) ==
    /\ sia_pc[t] = "update"
    /\ sia_lexicon' = [sia_lexicon EXCEPT ![sia] = WITH_CUSTOM_LEXICON]
    /\ sia_pc' = [sia_pc EXCEPT ![t] = "return"]
    /\ UNCHANGED <<sia, sia_local>>
    /\ analyzer_unchanged

\* return _sia
AnalyzerReturn(t) ==
    /\ sia_pc[t] = "return"
    /\ sia_local' = [sia_local EXCEPT ![t].sia = sia]
    /\ sia_pc' = [sia_pc EXCEPT ![t] = "score"]
    /\ UNCHANGED <<sia, sia_lexicon>>
    /\ analyzer_unchanged

\* scores = sia.polarity_scores(text)
VaderScore(t) ==
    /\ sia_pc[t] = "score"
    /\ sia_local' = [sia_local EXCEPT ![t].lexicon = sia_lexicon[sia_local[t].sia]]
    /\ sia_pc' = [sia_pc EXCEPT ![t] = "scored"]
    /\ UNCHANGED <<sia, sia_lexicon>>
    /\ analyzer_unchanged

AnalyzerOtherIdle ==
    MatchIdle /\ ClusterIdle /\ ClassifyIdle /\ ScorerIdle /\ CleanIdle /\ AnalyzeIdle

\* _sia = None at import, no thread inside _analyze_sentiment_vader
InitAnalyzer ==
    /\ AnalyzerOtherIdle
    /\ sia = NoAnalyzer
    /\ sia_lexicon = <<>>
    /\ sia_pc = [t \in Threads |-> "idle"]
    /\ sia_local = [t \in Threads |-> NoLocal]

NextAnalyzer ==
    \E t \in Threads :
        \/ VaderCall(t)
        \/ AnalyzerCheck(t)
        \/ AnalyzerConstruct(t)
        \/ AnalyzerUpdate(t)
        \/ AnalyzerReturn(t)
        \/ VaderScore(t)

SpecAnalyzer == InitAnalyzer /\ [][NextAnalyzer]_vars

(***************************************************************************)
(* Properties of match_cluster_to_taxonomy, under SpecMatch.               *)
(***************************************************************************)
Entries == 1..Len(CLUSTER_TAXONOMY)
EntryOf(key) == CHOOSE e \in Entries : CLUSTER_TAXONOMY[e].key = key
Allowed(excl) == {e \in Entries : CLUSTER_TAXONOMY[e].key \notin excl}
\* the entry's score for kws is strictly greater than 0.5
ScoresAboveHalf(kws, e) == 2 * entry_score(kws, e) > Len(kws)
\* the entry's score for kws is exactly 0.5
ScoresHalf(kws, e) == Len(kws) > 0 /\ 2 * entry_score(kws, e) = Len(kws)

\* C2: for every keyword list and every exclude set (taxonomy keys and general
\* keys issued before), the key match_cluster_to_taxonomy returns is not a
\* member of exclude.
C2_ReturnedKeyNotExcluded ==
    matched # NoMatch => matched[1] \notin exclude

\* C2 witness: the call has returned and the entry that scores highest of all,
\* above 0.5, is in exclude.
C2_BestEntryWasExcluded ==
    /\ matched # NoMatch
    /\ \E e \in Entries :
         /\ CLUSTER_TAXONOMY[e].key \in exclude
         /\ ScoresAboveHalf(keywords, e)
         /\ \A o \in Entries : entry_score(keywords, o) <= entry_score(keywords, e)

\* C3: a taxonomy key is returned only when its entry is not excluded, its score
\* is the maximum over the entries that are not excluded, and that score is
\* strictly greater than 0.5; when no entry that is not excluded scores above
\* 0.5 (a score of exactly 0.5 and an empty keyword list included) the returned
\* key is a fallback key that is no key of the taxonomy table.
C3_MatchOnlyAboveThreshold ==
    matched # NoMatch =>
      /\ matched[1] \in TaxonomyKeys =>
           LET e == EntryOf(matched[1])
           IN  /\ e \in Allowed(exclude)
               /\ \A o \in Allowed(exclude) :
                    entry_score(keywords, o) <= entry_score(keywords, e)
               /\ ScoresAboveHalf(keywords, e)
      /\ (\A o \in Allowed(exclude) : ~ScoresAboveHalf(keywords, o)) =>
           matched[1] \notin TaxonomyKeys

\* C3 witness: the best entry that is not excluded scores exactly 0.5 and the
\* call has returned a fallback key.
C3_ExactlyHalfFallsBack ==
    /\ matched # NoMatch
    /\ matched[1] \notin TaxonomyKeys
    /\ \E e \in Allowed(exclude) :
         /\ ScoresHalf(keywords, e)
         /\ \A o \in Allowed(exclude) :
              entry_score(keywords, o) <= entry_score(keywords, e)

\* C4: when the keyword list matches no taxonomy entry strongly enough, the
\* returned key starts with 'custom_' and the returned label contains a
\* capitalised input keyword.
C4_FallbackIsCustomLabel ==
    (/\ matched # NoMatch
     /\ \A o \in Allowed(exclude) : ~ScoresAboveHalf(keywords, o)) =>
      /\ StartsWith(matched[1], "custom_")
      /\ \E i \in 1..Len(keywords) : Contains(matched[2], Capitalize(keywords[i]))

\* the entry keywords a candidate keyword contains or is contained in, both
\* lower-cased
EntryHits(kw, e) ==
    {tax_kw \in CLUSTER_TAXONOMY[e].keywords :
       Contains(Lower(kw), Lower(tax_kw)) \/ Contains(Lower(tax_kw), Lower(kw))}

\* EntryHits of every text handed to the matcher, evaluated once
EntryHitsOf == [kw \in KeywordPool |-> [e \in Entries |-> EntryHits(kw, e)]]

\* the 0-based positions of the candidate list that hit the entry
HitPositions(kws, e) == {i \in 0..(Len(kws) - 1) : EntryHitsOf[kws[i + 1]][e] # {}}

\* the sum of N - i over the positions i of I
RECURSIVE SumOfWeights(_, _)
SumOfWeights(N, I) ==
    IF I = {} THEN 0
    ELSE LET i == CHOOSE j \in I : TRUE IN (N - i) + SumOfWeights(N, I \ {i})

\* C23: the score of an entry for a candidate list of length N is the sum of
\* (N - i) / N over exactly the 0-based positions i whose lower-cased keyword
\* contains, or is contained in, a lower-cased keyword of the entry, each position
\* counted once however many entry keywords it matches; the empty list scores 0
\* for every entry.  Scores are numerators over N.
C23_ScoreSumsHitPositionsOnce ==
    \A e \in Entries :
      /\ entry_score(keywords, e) = SumOfWeights(Len(keywords), HitPositions(keywords, e))
      /\ keywords = <<>> => entry_score(keywords, e) = 0

\* matched on a list in which a later keyword hits several keywords of an entry
\* and a keyword hits one only after lower-casing
C23_KeywordHitsSeveralEntryKeywords ==
    /\ matched # NoMatch
    /\ Len(keywords) = 3
    /\ \E e \in Entries :
         /\ Cardinality(EntryHitsOf[keywords[2]][e]) >= 2
         /\ keywords[3] = "Battery" /\ EntryHitsOf[keywords[3]][e] = {"battery"}
         /\ HitPositions(keywords, e) = {1, 2}
         /\ entry_score(keywords, e) = 3

\* the entries that are not excluded and score highest among them
TopEntries(kws, excl) ==
    {e \in Allowed(excl) : \A o \in Allowed(excl) : entry_score(kws, o) <= entry_score(kws, e)}

\* the entry of S that comes first in the taxonomy table
FirstEntry(S) == CHOOSE e \in S : \A o \in S : e <= o

\* C29: when several entries that are not excluded tie for the highest score,
\* and that score is above 0.5, the call returns the key and the label of the
\* tied entry that comes first in the taxonomy table.
C29_TieGoesToFirstEntry ==
    (/\ matched # NoMatch
     /\ Cardinality(TopEntries(keywords, exclude)) >= 2
     /\ ScoresAboveHalf(keywords, FirstEntry(TopEntries(keywords, exclude)))) =>
       LET first == FirstEntry(TopEntries(keywords, exclude))
       IN  matched = <<CLUSTER_TAXONOMY[first].key, CLUSTER_TAXONOMY[first].label>>

\* C29 witness: with the first entry of the table excluded, several of the
\* other entries tie above 0.5 on a list of three keywords, and the call has
\* returned the first of them.
C29_TieAmongLaterEntries ==
    /\ matched # NoMatch
    /\ Len(keywords) = 3
    /\ CLUSTER_TAXONOMY[1].key \in exclude
    /\ Cardinality(TopEntries(keywords, exclude)) >= 2
    /\ ScoresAboveHalf(keywords, FirstEntry(TopEntries(keywords, exclude)))
    /\ matched[1] = CLUSTER_TAXONOMY[FirstEntry(TopEntries(keywords, exclude))].key

(***************************************************************************)
(* Properties of cluster_posts, under Spec.                                *)
(***************************************************************************)
Calls == 1..Len(returned)
IsPseudo(cluster) == "reason" \in DOMAIN cluster
\* the call returned one pseudo-cluster and no cluster
GuardOutcome(r) == Len(r.clusters) = 1 /\ IsPseudo(r.clusters[1])
GuardOutcomeWith(r, reason) == GuardOutcome(r) /\ r.clusters[1].reason = reason
\* the call returned clusters
Success(r) == \A j \in 1..Len(r.clusters) : ~IsPseudo(r.clusters[j])
HasClusterId(post) == "clusterId" \in DOMAIN post
WithTokens == {i \in 1..Len(posts) : posts[i].tokens # <<>>}
\* the key the matcher gives a keyword list when no key is excluded
KeyAlone(kws) == match_cluster_to_taxonomy(kws, {})[1]
\* the keys of the clusters emitted before cluster j
ClaimedBefore(clusters, j) == {clusters[i].taxonomyId : i \in 1..(j - 1)}

RECURSIVE SumPostCounts(_)
SumPostCounts(clusters) ==
    IF clusters = <<>> THEN 0 ELSE Head(clusters).postCount + SumPostCounts(Tail(clusters))

\* C1: after a successful cluster_posts call the taxonomyId values of the
\* emitted clusters are pairwise distinct, whatever the documents, k and the
\* K-Means labelling.
C1_TaxonomyIdsDistinct ==
    \A c \in Calls :
      LET cl == returned[c].clusters
      IN  Success(returned[c]) =>
            \A i, j \in 1..Len(cl) : i # j => cl[i].taxonomyId # cl[j].taxonomyId

\* C1 witness: a call has emitted two clusters whose keyword lists, each matched
\* on its own, get the same key (the same entry, or the same general key).
C1_TwoClustersWantSameKey ==
    \E c \in Calls :
      LET cl == returned[c].clusters
      IN  /\ Success(returned[c])
          /\ \E i, j \in 1..Len(cl) :
               i < j /\ KeyAlone(cl[i].keywords) = KeyAlone(cl[j].keywords)

\* C5 as stated: when the keywords of two clusters both score above 0.5 on the
\* same entry, the cluster with the lower index receives that entry, even if
\* the cluster with the higher index scores higher on it, and the cluster with
\* the higher index receives its best remaining entry scoring above 0.5 or
\* else a general fallback key.
C5_SharedEntryGoesToLowerIndex ==
    \A c \in Calls :
      LET cl == returned[c].clusters
      IN  Success(returned[c]) =>
            \A i, j \in 1..Len(cl) : \A e \in Entries :
              (/\ i < j
               /\ ScoresAboveHalf(cl[i].keywords, e)
               /\ ScoresAboveHalf(cl[j].keywords, e)) =>
                /\ cl[i].taxonomyId = CLUSTER_TAXONOMY[e].key
                /\ LET remaining == Allowed(ClaimedBefore(cl, j))
                   IN  IF \E o \in remaining : ScoresAboveHalf(cl[j].keywords, o)
                       THEN /\ cl[j].taxonomyId \in TaxonomyKeys
                            /\ EntryOf(cl[j].taxonomyId) \in remaining
                            /\ \A o \in remaining :
                                 entry_score(cl[j].keywords, o)
                                   <= entry_score(cl[j].keywords, EntryOf(cl[j].taxonomyId))
                       ELSE StartsWith(cl[j].taxonomyId, "general")

\* C5 amended: entries are claimed greedily in cluster-index order.  Each
\* cluster receives the entry that scores highest among the entries no cluster
\* of lower index has received, when that score is above 0.5, whatever clusters
\* of higher index score on it; otherwise it receives a general fallback key
\* that no cluster of lower index has received.
C5_GreedyInClusterOrder ==
    \A c \in Calls :
      LET cl == returned[c].clusters
      IN  Success(returned[c]) =>
            \A j \in 1..Len(cl) :
              LET claimed == ClaimedBefore(cl, j)
                  kws == cl[j].keywords
              IN  IF \E e \in Allowed(claimed) : ScoresAboveHalf(kws, e)
                  THEN /\ cl[j].taxonomyId \in TaxonomyKeys \ claimed
                       /\ \A o \in Allowed(claimed) :
                            entry_score(kws, o) <= entry_score(kws, EntryOf(cl[j].taxonomyId))
                  ELSE /\ cl[j].taxonomyId \notin TaxonomyKeys \cup claimed
                       /\ StartsWith(cl[j].taxonomyId, "general")

\* C5 witness: two clusters have the same best entry, the cluster of higher
\* index scores strictly higher on it, and the cluster of lower index has
\* received it.
C5_LowerIndexClaimsDespiteLowerScore ==
    \E c \in Calls :
      LET cl == returned[c].clusters
      IN  /\ Success(returned[c])
          /\ \E i, j \in 1..Len(cl) : \E e \in Entries :
               /\ i < j
               /\ cl[i].taxonomyId = CLUSTER_TAXONOMY[e].key
               /\ KeyAlone(cl[j].keywords) = CLUSTER_TAXONOMY[e].key
               /\ entry_score(cl[j].keywords, e) > entry_score(cl[i].keywords, e)
               /\ cl[j].taxonomyId # CLUSTER_TAXONOMY[e].key

\* C6: the guards are decided in order and each yields exactly one
\* pseudo-cluster and no cluster: no posts, or fewer posts than k, gives
\* 'insufficient_posts' (also when every token list is empty); otherwise fewer
\* than k posts with a non-empty token list gives 'insufficient_vocabulary'.
C6_GuardsDecidedInOrder ==
    \A c \in Calls :
      LET few_posts == Len(posts) = 0 \/ Len(posts) < n_clusters
      IN  /\ few_posts => GuardOutcomeWith(returned[c], "insufficient_posts")
          /\ (~few_posts /\ Cardinality(WithTokens) < n_clusters) =>
               GuardOutcomeWith(returned[c], "insufficient_vocabulary")

\* C6 witness: a call has returned for posts that are fewer than k and all have
\* an empty token list.
C6_TooFewPostsAllEmpty ==
    /\ returned # <<>>
    /\ Len(posts) > 0 /\ Len(posts) < n_clusters
    /\ WithTokens = {}

\* C7: in every outcome the returned posts have the length and order of the
\* input; a post whose token list is empty is returned without a clusterId,
\* and in a guard outcome no post has received a clusterId.
C7_NoPostVanishes ==
    \A c \in Calls :
      LET out == returned[c].posts
      IN  /\ Len(out) = Len(posts)
          /\ \A i \in 1..Len(posts) :
               /\ i \in DOMAIN out
               /\ out[i].id = posts[i].id
               /\ out[i].tokens = posts[i].tokens
               /\ posts[i].tokens = <<>> => ~HasClusterId(out[i])
               /\ GuardOutcome(returned[c]) => ~HasClusterId(out[i])

\* C7 witness: a call has emitted clusters for posts one of which has an empty
\* token list.
C7_ClusteredWithAnEmptyPost ==
    \E c \in Calls :
      /\ Success(returned[c])
      /\ \E i \in 1..Len(posts) : posts[i].tokens = <<>>

\* C8: on success the emitted clusters partition the posts that have tokens:
\* each such post carries a clusterId that is the id of exactly one emitted
\* cluster, whose postIds lists the post; every cluster has
\* postCount = len(postIds) >= 1; at most k clusters are emitted; the postCounts
\* sum to the number of posts that have tokens.
C8_ClustersPartitionPosts ==
    \A c \in Calls :
      LET cl == returned[c].clusters
          out == returned[c].posts
      IN  Success(returned[c]) =>
            /\ Len(cl) <= n_clusters
            /\ \A j \in 1..Len(cl) :
                 cl[j].postCount = Len(cl[j].postIds) /\ cl[j].postCount >= 1
            /\ \A i \in WithTokens :
                 /\ HasClusterId(out[i])
                 /\ Cardinality({j \in 1..Len(cl) : cl[j].id = out[i].clusterId}) = 1
                 /\ \A j \in 1..Len(cl) :
                      (cl[j].id = out[i].clusterId) <=>
                        (\E m \in 1..Len(cl[j].postIds) : cl[j].postIds[m] = out[i].id)
            /\ SumPostCounts(cl) = Cardinality(WithTokens)

\* C8 witness: a call has emitted at least two clusters for posts one of which
\* has no tokens.
C8_TwoClustersAndAnEmptyPost ==
    \E c \in Calls :
      /\ Success(returned[c])
      /\ Len(returned[c].clusters) >= 2
      /\ Cardinality(WithTokens) < Len(posts)

\* what C9 compares of a cluster: everything but the generated id
ClusterContent(cluster) ==
    IF IsPseudo(cluster) THEN <<cluster.reason>>
    ELSE <<{cluster.postIds[m] : m \in 1..Len(cluster.postIds)},
           cluster.taxonomyId, cluster.keywords>>

C10_ClassifyExactAtBoundaries ==
    category # None =>
      /\ category \in {"positive", "negative", "neutral"}
      /\ (category = "positive") <=> (score >= 300)
      /\ (category = "negative") <=> (score <= -300)
      /\ (category = "neutral") <=> (score > -300 /\ score < 300)

\* C10 witness: classify_sentiment has returned 'positive' for exactly 0.3.
C10_ExactlyThresholdIsPositive ==
    score = 300 /\ category = "positive"

(***************************************************************************)
(* Properties of aggregate_cluster_sentiment, under SpecAggregate.         *)
(***************************************************************************)
\* the members that carry a compound value
WithCompound(ps) ==
    {i \in 1..Len(ps) : "sentiment" \in DOMAIN ps[i] /\ "compound" \in DOMAIN ps[i].sentiment}

RECURSIVE SumOver(_, _)
SumOver(ps, I) ==
    IF I = {} THEN 0
    ELSE LET i == CHOOSE x \in I : TRUE
         IN  ps[i].sentiment.compound + SumOver(ps, I \ {i})

\* C11: the returned value is the sum of the members' compound values over
\* the number of all members, a member without a sentiment vector adding 0.0
\* and still counting in the divisor; an empty list returns 0.0.
C11_MeanOverAllMembers ==
    average # NotReturned =>
        /\ average.den > 0
        /\ IF members = <<>>
           THEN average.num = 0
           ELSE average.num * Len(members)
                    = average.den * SumOver(members, WithCompound(members))

\* C11 witness: a mean was returned for a member without a sentiment and a
\* member with compound 0.5: 0.25.
C11_MeanWithUnscoredMember ==
    /\ Len(members) = 2
    /\ "sentiment" \notin DOMAIN members[1]
    /\ compound_of(members[2]) = 500
    /\ average = [num |-> 500, den |-> 2]

(***************************************************************************)
(* Properties of the sentiment scorer, under SpecScorer.                   *)
(***************************************************************************)
PostsReturned == pc = "posts_done" /\ raised = None
AllScoredBy(strategy) ==
    /\ Len(scored_by) = Len(sentiment_posts)
    /\ \A i \in 1..Len(scored_by) : scored_by[i] = strategy
Contents(ps) == [i \in 1..Len(ps) |-> ps[i].content]

\* C12: analyze_posts_sentiment returns one result for each input post, in
\* the order of the input: result i has the fields of post i and a sentiment
\* vector, for every length and every mix of batch results, batch failures
\* and per-document fallbacks.
C12_OneResultPerPost ==
    PostsReturned =>
        /\ Len(output) = Len(sentiment_posts)
        /\ \A i \in 1..Len(sentiment_posts) :
             /\ DOMAIN output[i] = DOMAIN sentiment_posts[i] \cup {"sentiment"}
             /\ \A f \in DOMAIN sentiment_posts[i] : output[i][f] = sentiment_posts[i][f]
             /\ DOMAIN output[i].sentiment = SentimentFields

\* C12 witness: six posts came back scored by the provider, the last of them
\* through the per-document fallback of the second, one-post batch.
C12_SixPostsSecondBatchFellBack ==
    /\ PostsReturned
    /\ Len(sentiment_posts) = 6
    /\ AllScoredBy("gemini")
    /\ batch_start = 5
    /\ prompt.kind = "single"

\* C13: the sentiments of one analyze_posts_sentiment result come from one
\* strategy: all from the generative scorer, or all from the lexicon over
\* all the posts; when a per-document request of a failed batch fails too,
\* the generative results of earlier batches are dropped and every post is
\* scored by the lexicon.
C13_OneStrategyPerResult ==
    PostsReturned =>
        /\ \/ AllScoredBy("gemini") /\ lexicon_calls = <<>>
           \/ AllScoredBy("vader") /\ lexicon_calls = Contents(sentiment_posts)
        /\ (prompt # NoPrompt /\ prompt.kind = "single" /\ analyze_single(response) = NoValue)
              => AllScoredBy("vader")

\* C13 witness: the first batch was scored by the provider, the second batch
\* and its per-document request failed, and all six posts came back scored
\* by the lexicon.
C13_EarlierBatchDropped ==
    /\ PostsReturned
    /\ Len(sentiment_posts) = 6
    /\ Len(results) = 5
    /\ batch_start = 5
    /\ prompt.kind = "single"
    /\ response = CallNone
    /\ AllScoredBy("vader")

\* C14: one call of _call_gemini_with_retry invokes the provider at most
\* max_retries + 1 times whatever timeouts and transient errors occur, and
\* has returned None once that many attempts have failed.
C14_AtMostRetriesPlusOneAttempts ==
    /\ provider_calls <= max_retries + 1
    /\ (prompt # NoPrompt /\ attempt >= max_retries + 1) => response = CallNone

\* C14 witness: a call with max_retries = 2 returned None after three
\* provider invocations, the last one a timeout.
C14_ThreeAttemptsExhausted ==
    /\ pc = "call"
    /\ max_retries = 2
    /\ provider_calls = 3
    /\ last_error = "TimeoutError"
    /\ response = CallNone


InCall == pc \in {"call", "batch_call", "single_call", "score_call"}
FatalMessages == {"400 API key not valid"}

\* the response is no JSON, or a batch response with another number of entries
\* than the request has posts
Unusable(p, r) ==
    /\ r # NotReturned /\ r # CallNone
    /\ \/ r.body.json = "invalid"
       \/ p.kind = "batch" /\ r.body.json = "array" /\ Len(r.body.items) # Len(p.texts)

C16_ProviderFailureNotSurfaced ==
    /\ raised = None
    /\ pc = "posts_done" =>
         /\ Len(output) = Len(sentiment_posts)
         /\ \A i \in 1..Len(output) :
              /\ "sentiment" \in DOMAIN output[i]
              /\ output[i].id = sentiment_posts[i].id

\* C16 witness: the retries of the last request were exhausted by timeouts
\* and six posts came back with a sentiment.
C16_ExhaustedRetriesStillScored ==
    /\ pc = "posts_done"
    /\ Len(output) = 6
    /\ last_error = "TimeoutError"
    /\ provider_calls = 3
    /\ response = CallNone

InRange(v) ==
    /\ v.positive >= 0 /\ v.negative >= 0 /\ v.neutral >= 0
    /\ v.compound >= -1000 /\ v.compound <= 1000

\* C17: every sentiment vector the scorer attaches, from either strategy, has
\* positive, negative and neutral >= 0 and compound in [-1, 1], whatever
\* numbers the provider's response holds.
C17_VectorsInRange ==
    /\ (pc = "posts_done" /\ raised = None) =>
           \A i \in 1..Len(output) : InRange(output[i].sentiment)
    /\ (pc = "score_done" /\ raised = None) => InRange(output)

\* C18: every document text placed in a request to the provider, single or
\* batch, has at most 2000 characters, and a batch request holds at most 5
\* documents.
C18_RequestTextsBounded ==
    prompt # NoPrompt =>
        /\ Len(prompt.texts) <= 5
        /\ \A n \in 1..Len(prompt.texts) : Len(prompt.texts[n]) <= 2000

\* C19: an empty or whitespace-only text is scored compound 0, positive 0,
\* negative 0, neutral 1 without a call of the lexicon analyzer, by
\* analyze_sentiment and by the lexicon path of analyze_posts_sentiment.
C19_BlankTextNeutralWithoutLexicon ==
    /\ (pc = "score_done" /\ raised = None /\ is_blank(text)) =>
           output = NEUTRAL_SENTIMENT /\ lexicon_calls = <<>>
    /\ (PostsReturned /\ AllScoredBy("vader")) =>
           \A i \in 1..Len(sentiment_posts) :
               is_blank(sentiment_posts[i].content) =>
                   /\ output[i].sentiment = NEUTRAL_SENTIMENT
                   /\ \A n \in 1..Len(lexicon_calls) :
                        lexicon_calls[n] # sentiment_posts[i].content


RetryableErrors == {"TimeoutError", "429 Rate limit exceeded", "Deadline Exceeded"}

RECURSIVE TwoToThe(_)
TwoToThe(n) == IF n = 0 THEN 1 ELSE 2 * TwoToThe(n - 1)

SingleFailure ==
    /\ pc = "single_call"
    /\ response # NotReturned
    /\ analyze_single(response) = NoValue

\* C25: analyze_posts_sentiment always returns, whatever the provider answers
\* to each request, and so does every _call_gemini_with_retry with a finite
\* max_retries; the step that follows the first failed per-document request
\* is the return of the call, with no provider request after it.
C25_ReturnsAndStopsAfterFailure ==
    /\ (pc = "analyze_posts_sentiment") ~> (pc = "posts_done")
    /\ (pc = "call") ~> (response # NotReturned)
    /\ [][SingleFailure => (pc' = "posts_done" /\ provider_calls' = provider_calls)]_vars
    /\ [][pc = "posts_done" => provider_calls' = provider_calls]_vars

\* C25 witness: the batch of three documents failed, the first document was
\* scored by its own request, the request for the second failed, and the call
\* has returned the lexicon's scores without a request for the third.
C25_ReturnedAfterSecondDocumentFailed ==
    /\ pc = "posts_done"
    /\ Len(sentiment_posts) = 3
    /\ \A n \in 1..3 : ~is_blank(sentiment_posts[n].content)
    /\ Len(results) = 1
    /\ single_idx = 1
    /\ output # NotReturned /\ Len(output) = 3
    /\ scored_by = <<"vader", "vader", "vader">>


(***************************************************************************)
(* Properties of _init_gemini, under SpecInit.                             *)
(***************************************************************************)
\* C20: the availability check of _init_gemini happens once in a process:
\* whatever the number of callers, threads calling it at the same time
\* included, at most one client is constructed, the availability flag never
\* changes once it is True or False, and without a credential it becomes
\* False with no client constructed.
C20_InitializedOnce ==
    /\ [](clients_built <= 1)
    /\ [][gemini_available # None => gemini_available' = gemini_available]_vars
    /\ [](api_key = "" => clients_built = 0 /\ gemini_available \in {None, "False"})

(***************************************************************************)
(* Properties of clean_text, under SpecClean.                              *)
(***************************************************************************)

\* C21: normalization is idempotent: clean_text applied to the output of a
\* first pass returns that output unchanged, for every text, also when the
\* removal of a '#' or of an @mention in the first pass joins characters into
\* a new 'http...' or 'www...' pattern.
C21_CleanTextIdempotent ==
    second_pass # None => second_pass = first_pass

(***************************************************************************)
(* Properties of POST /api/analyze, under SpecAnalyze.                     *)
(***************************************************************************)
\* the request was accepted and answered, and had at least one document
Analyzed ==
    /\ api_response # NotReturned
    /\ api_response.status = 200
    /\ Len(request_posts) >= 1

\* round(sqrt(n / 2)): the integer nearest to the root; 2n is even and
\* (2r + 1)^2 odd, so the root is never halfway between two integers
rounded_sqrt_of_half(n) ==
    CHOOSE r \in 0..n : (2 * r - 1) * (2 * r - 1) < 2 * n /\ 2 * n < (2 * r + 1) * (2 * r + 1)

clamp(x, low, high) == Max(low, Min(high, x))

\* C22: the cluster count /api/analyze passes to clustering for n >= 1 accepted
\* documents is min(n, clamp(round(sqrt(n / 2)), 3, 10)).
C22_CountIsRoundedRoot ==
    Analyzed =>
      k_passed = Min(Len(request_posts),
                     clamp(rounded_sqrt_of_half(Len(request_posts)), 3, 10))


\* the documents of the response that carry the cluster's id as clusterId
documents_of_cluster(cluster) ==
    IF "id" \in DOMAIN cluster
    THEN SelectSeq(api_response.posts, LAMBDA p : p.clusterId = cluster.id)
    ELSE <<>>

\* C26: the sentiment /api/analyze reports for a cluster of an accepted request
\* is the mean, rounded to 3 decimals, of the compound values of exactly the
\* documents that carry the cluster's clusterId; no document of another cluster
\* and no unclustered document contributes to it.
C26_SentimentOverOwnDocuments ==
    Analyzed =>
      \A c \in 1..Len(api_response.clusters) :
        api_response.clusters[c].sentiment \in
          round3(aggregate_cluster_sentiment(documents_of_cluster(api_response.clusters[c])))


\* C27: the sentimentLabel of every cluster in an /api/analyze response is
\* classify_sentiment of the sentiment reported beside it, the mean rounded to
\* 3 decimals: a reported 0.3 is never labelled neutral.
C27_LabelOfReportedValue ==
    Analyzed =>
      \A c \in 1..Len(api_response.clusters) :
        api_response.clusters[c].sentimentLabel =
          classify_sentiment(api_response.clusters[c].sentiment)


\* C30: for an accepted request of n >= 1 documents the cluster count k passed
\* to cluster_posts satisfies 1 <= k <= min(n, 10) and k >= min(n, 3), and no
\* cluster of the response is the 'insufficient_posts' pseudo-cluster.
C30_CountWithinDocuments ==
    Analyzed =>
      /\ 1 <= k_passed
      /\ k_passed <= Min(Len(request_posts), 10)
      /\ k_passed >= Min(Len(request_posts), 3)
      /\ \A c \in 1..Len(api_response.clusters) :
           "reason" \in DOMAIN api_response.clusters[c] =>
             api_response.clusters[c].reason # "insufficient_posts"

\* C30 witness: a request of two documents, fewer than the lower clamp of 3,
\* was clustered with k = 2 into two clusters.
C30_TwoDocumentsTwoClusters ==
    /\ Analyzed
    /\ Len(request_posts) = 2
    /\ k_passed = 2
    /\ Len(api_response.clusters) = 2
    /\ \A c \in 1..2 : api_response.clusters[c].postCount = 1


(***************************************************************************)
(* Properties of _get_analyzer, under SpecAnalyzer.                        *)
(***************************************************************************)
\* the threads that have obtained an analyzer from _get_analyzer
Holders == {t \in Threads : sia_local[t].sia # NoAnalyzer}

\* C28: under any interleaving of the callers of _get_analyzer, no caller
\* obtains and scores text with an analyzer whose lexicon lacks the domain
\* overrides, and all callers hold the same analyzer instance.
C28_OneAnalyzerWithOverrides ==
    /\ \A t \in Holders : sia_lexicon[sia_local[t].sia] = WITH_CUSTOM_LEXICON
    /\ \A t \in Threads : sia_local[t].lexicon \in {None, WITH_CUSTOM_LEXICON}
    /\ \A t, u \in Holders : sia_local[t].sia = sia_local[u].sia
====
